---- MODULE Spec2Model ----
(***************************************************************************)
(* Verification model of the orchestration core of grocery_tracker:       *)
(* the Task/Plan model, the agent's analyze -> plan -> execute -> adapt   *)
(* -> synthesize loop (src/src/agents/base.py and its two subclasses),    *)
(* the tool registry's execute_tool and the agent manager's routing.      *)
(***************************************************************************)
EXTENDS Integers, Sequences, FiniteSets, TLC

(***************************************************************************)
(* Bounds of the model.                                                    *)
(***************************************************************************)
\* longest task list of the plans drawn for the Task/Plan queries
MaxLen == 2
\* plan replacements (adaptations) followed within one execute_plan run
MaxAdapt == 1
MaxRuns == 2
MaxDecisions == 52
MaxExperiences == 6
MaxMemory == 3

(***************************************************************************)
(* Texts.  A text is a sequence of tokens; a token is a word or one         *)
(* serialized JSON value (obj: what json.loads decodes it to).             *)
(***************************************************************************)
NoObj == [goal |-> "", tasks |-> <<>>]
T(word) == [tok |-> word, obj |-> NoObj]
Obj(plan_data) == [tok |-> "object", obj |-> plan_data]

StartsWithError(text) == Len(text) > 0 /\ text[1].tok = "Error"
Contains(text, word) == \E i \in 1..Len(text) : text[i].tok = word

NoneVal == [type |-> "none", text |-> <<>>]
StrVal(t) == [type |-> "str", text |-> t]
DictVal(t) == [type |-> "dict", text |-> t]
\* Python truthiness of None, a str and a dict
Truthy(v) == v.type # "none" /\ v.text # <<>>

(***************************************************************************)
(* Task / Plan model (base.py, Task and Plan dataclasses).                 *)
(***************************************************************************)
TaskType == {"analyze", "extract", "process", "save", "validate", "reason"}
TaskStatus == {"pending", "running", "completed", "failed", "skipped"}
NoTool == "None"

\* confidence is kept in tenths: the dataclass default 1.0 is 10
Task(id, type, tool_name, parameters, dependencies) ==
    [id |-> id, type |-> type, tool_name |-> tool_name,
     parameters |-> parameters, dependencies |-> dependencies,
     status |-> "pending", result |-> NoneVal, confidence |-> 10]

WithConfidence(task, tenths) == [task EXCEPT !.confidence = tenths]

RECURSIVE ReadyFrom(_, _, _)
ReadyFrom(tasks, completed_task_ids, i) ==
    IF i > Len(tasks) THEN <<>>
    ELSE IF tasks[i].status = "pending"
            /\ \A dep_id \in tasks[i].dependencies : dep_id \in completed_task_ids
         THEN <<i>> \o ReadyFrom(tasks, completed_task_ids, i + 1)
         ELSE ReadyFrom(tasks, completed_task_ids, i + 1)

\* mutant: readiness without the dependency test
get_next_tasks_nodeps(tasks) ==
    ReadyFrom(tasks, {tasks[i].id : i \in 1..Len(tasks)} \cup UNION {tasks[i].dependencies : i \in 1..Len(tasks)}, 1)

\* Plan.get_next_tasks: the positions of the ready tasks, in plan order
get_next_tasks(tasks) ==
    ReadyFrom(tasks,
              {tasks[i].id : i \in {j \in 1..Len(tasks) : tasks[j].status = "completed"}},
              1)

\* mutant: a skipped task keeps the plan incomplete
is_complete_strict(tasks) ==
    \A i \in 1..Len(tasks) : tasks[i].status = "completed"

is_complete(tasks) ==
    \A i \in 1..Len(tasks) : tasks[i].status \in {"completed", "skipped"}

has_failed(tasks) ==
    \E i \in 1..Len(tasks) : tasks[i].status = "failed"

(***************************************************************************)
(* Requests, context and the oracle (base.py analyze_input,                *)
(* services/gemini.py GeminiService.call).                                 *)
(***************************************************************************)
Agents == {"Agentic Receipt Processing Agent", "Agentic Text Expense Agent"}
ReceiptAgent == "Agentic Receipt Processing Agent"
TextAgent == "Agentic Text Expense Agent"

Payload == StrVal(<<T("payload")>>)

\* keyword arguments of a request: a function from the keys present to values
Kwargs ==
    {<<>>} \cup [{"text"} -> {Payload, NoneVal}] \cup [{"image_data"} -> {Payload}]

Get(d, k) == IF k \in DOMAIN d THEN d[k] ELSE NoneVal

Update(d, e) ==
    [k \in DOMAIN d \cup DOMAIN e |-> IF k \in DOMAIN e THEN e[k] ELSE d[k]]

_determine_input_type(kw) ==
    IF "image_data" \in DOMAIN kw THEN "image"
    ELSE IF "text" \in DOMAIN kw THEN "text"
    ELSE "unknown"

\* _perform_input_analysis of the text agent measures len(text) and
\* text.split(): a text that is not a str raises; the receipt agent only
\* tests key membership
AnalysisRaises(agent, kw) ==
    agent = TextAgent /\ "text" \in DOMAIN kw /\ kw["text"].type # "str"

\* what the oracle transport can do on one call
ErrorText == <<T("Error"), T("oracle failure")>>
PlanJson(tasks) == [goal |-> "goal", tasks |-> tasks]

\* GeminiService.call: a transport exception becomes an 'Error: ...' text;
\* response.text may be None or empty
GeminiCall(transport) ==
    IF transport.kind = "raise" THEN StrVal(ErrorText)
    ELSE IF transport.kind = "none" THEN NoneVal
    ELSE StrVal(transport.text)

(***************************************************************************)
(* Plans built from oracle text (base.py _parse_plan_response,             *)
(* _create_fallback_plan, _get_fallback_plan_json, _call_planning_ai).     *)
(***************************************************************************)
NoParams == <<>>
\* a "parameters" value that is no dict (JSON null)
NullParams == [k \in {"<null>"} |-> NoneVal]
IsDict(parameters) == "<null>" \notin DOMAIN parameters

Plan(id, goal, tasks) ==
    [id |-> id, goal |-> goal, tasks |-> tasks, status |-> "created"]

\* mutant: the generic single-task plan for every input type
_create_fallback_plan_generic(context) ==
    Plan(<<"fallback_plan">>, "Process input using fallback strategy",
         << WithConfidence(Task("task_1", "process", NoTool, NoParams, {}), 5) >>)

_create_fallback_plan(context) ==
    Plan(<<"fallback_plan">>, "Process input using fallback strategy",
         IF context.input_type = "image" THEN
            << WithConfidence(Task("task_1", "extract", "process_receipt",
                    [k \in {"image_data"} |-> Get(context.input_data, "image_data")], {}), 8),
               WithConfidence(Task("task_2", "save", "save_to_sheets", NoParams, {"task_1"}), 9) >>
         ELSE IF context.input_type = "text" THEN
            << WithConfidence(Task("task_1", "extract", "extract_text_expense",
                    [k \in {"text"} |-> Get(context.input_data, "text")], {}), 8),
               WithConfidence(Task("task_2", "save", "save_to_sheets", NoParams, {"task_1"}), 9) >>
         ELSE
            << WithConfidence(Task("task_1", "process", NoTool, NoParams, {}), 5) >>)

\* the JSON text _get_fallback_plan_json returns: one tool-less extract task
FallbackPlanJsonText ==
    << T("{"),
       Obj([goal |-> "Process input using fallback strategy",
            tasks |-> << [id |-> "task_1", type |-> "extract", tool_name |-> NoTool,
                          parameters |-> NoParams, dependencies |-> {},
                          confidence |-> 7] >>]),
       T("}") >>

_get_fallback_plan_json == StrVal(FallbackPlanJsonText)

\* the except branch of _call_planning_ai returns the same JSON text; it is
\* not reached, GeminiCall having turned every exception into a text
_call_planning_ai(transport) ==
    LET response == GeminiCall(transport) IN
    IF ~Truthy(response) THEN _get_fallback_plan_json
    ELSE IF StartsWithError(response.text) THEN _get_fallback_plan_json
    ELSE response

\* str.find('{') and str.rfind('}') + 1 on the token sequence (0 = not found)
Find(text, word) ==
    IF Contains(text, word)
    THEN CHOOSE i \in 1..Len(text) :
            text[i].tok = word /\ \A j \in 1..(i - 1) : text[j].tok # word
    ELSE 0
RFind(text, word) ==
    IF Contains(text, word)
    THEN CHOOSE i \in 1..Len(text) :
            text[i].tok = word /\ \A j \in (i + 1)..Len(text) : text[j].tok # word
    ELSE 0

\* json.loads of the substring first '{' .. last '}' succeeds iff the
\* substring is one serialized object
Decodable(text, s, e) ==
    e = s + 2 /\ text[s + 1].tok = "object"

TaskFromData(td) ==
    WithConfidence(Task(td.id, td.type, td.tool_name, td.parameters, td.dependencies),
                   IF "confidence" \in DOMAIN td THEN td.confidence ELSE 10)

\* mutant: the tasks built before the entry of unknown kind are kept
_parse_plan_response_partial(response, context) ==
    IF ~Truthy(response) THEN _create_fallback_plan(context)
    ELSE LET text == response.text
             json_start == Find(text, "{")
             json_end == RFind(text, "}")
         IN  IF json_start = 0 \/ json_end <= json_start
             THEN _create_fallback_plan(context)
             ELSE IF ~Decodable(text, json_start, json_end)
             THEN _create_fallback_plan(context)
             ELSE LET plan_data == text[json_start + 1].obj
                      good == {n \in 0..Len(plan_data.tasks) :
                                 \A i \in 1..n : plan_data.tasks[i].type \in TaskType}
                      built == CHOOSE n \in good : \A m \in good : m <= n
                  IN  Plan(<<"plan">>, plan_data.goal,
                           [i \in 1..built |-> TaskFromData(plan_data.tasks[i])])

_parse_plan_response(response, context) ==
    IF ~Truthy(response) THEN _create_fallback_plan(context)
    ELSE LET text == response.text
             json_start == Find(text, "{")
             json_end == RFind(text, "}")
         IN  IF json_start = 0 \/ json_end <= json_start
             THEN _create_fallback_plan(context)
             ELSE IF ~Decodable(text, json_start, json_end)
             THEN _create_fallback_plan(context)
             ELSE LET plan_data == text[json_start + 1].obj IN
                  IF \E i \in 1..Len(plan_data.tasks) : plan_data.tasks[i].type \notin TaskType
                  THEN _create_fallback_plan(context)
                  ELSE Plan(<<"plan">>, plan_data.goal,
                            [i \in 1..Len(plan_data.tasks) |-> TaskFromData(plan_data.tasks[i])])

(***************************************************************************)
(* Tools and the registry (tools/*.py, tools/registry.py execute_tool).    *)
(***************************************************************************)
RegisteredTools == {"process_receipt", "extract_text_expense", "save_to_sheets"}
\* what the external work inside a tool does on one invocation
ToolBehaviour == {"ok", "error", "raise"}

ExpenseJson == <<T("{"), T("items"), T("}")>>
SavedText == <<T("Successfully saved"), T("items"), T("to Google Sheets")>>
ToolError(why) == <<T("Error"), T(why)>>

\* json.loads of a whole text
JsonLoads(text) == Len(text) = 3 /\ text[1].tok = "{" /\ text[2].tok \in {"items", "object"}
                   /\ text[3].tok = "}"

\* the raise marker: an exception left the call
Raised == <<T("<raised>")>>

\* tool.execute(**kwargs) of the three tools: every body catches its own
\* exceptions (behaviour "raise") and answers with an 'Error' text
ToolExecute(name, params, behaviour) ==
    IF name = "process_receipt" THEN
        IF ~Truthy(Get(params, "image_data")) THEN ToolError("No image data provided")
        ELSE IF behaviour = "ok" THEN ExpenseJson
        ELSE ToolError("processing receipt")
    ELSE IF name = "extract_text_expense" THEN
        IF ~Truthy(Get(params, "text")) THEN ToolError("No text provided")
        ELSE IF behaviour = "ok" THEN ExpenseJson
        ELSE ToolError("extracting text expense")
    ELSE
        IF ~Truthy(Get(params, "expense_data")) THEN ToolError("No expense data provided")
        ELSE IF ~JsonLoads(Get(params, "expense_data").text) THEN ToolError("Invalid JSON format")
        ELSE IF behaviour = "ok" THEN SavedText
        ELSE ToolError("saving to sheets")

\* AgenticToolRegistry.execute_tool: the text, or the raise marker if an
\* exception leaves the call
execute_tool(name, params, behaviour) ==
    IF name \notin RegisteredTools THEN ToolError("Tool not found")
    ELSE LET out == ToolExecute(name, params, behaviour) IN
         IF out = Raised THEN ToolError("executing tool") ELSE out

(***************************************************************************)
(* Task execution (base.py execute_task, execute_reasoning_task of the     *)
(* two agents).                                                            *)
(***************************************************************************)
AgentResult(success, message, data, error) ==
    [success |-> success, message |-> message, data |-> data, error |-> error]
NoResult == AgentResult(FALSE, "", NoneVal, NoneVal)

\* the first completed task of the agent's current plan with a text result
\* that does not begin with 'Error' (the loop breaks at the first one)
ExpenseSource(tasks) ==
    LET ok(i) == /\ tasks[i].status = "completed"
                 /\ Truthy(tasks[i].result)
                 /\ tasks[i].result.type = "str"
                 /\ ~StartsWithError(tasks[i].result.text)
    IN  IF \E i \in 1..Len(tasks) : ok(i)
        THEN CHOOSE i \in 1..Len(tasks) : ok(i) /\ \A j \in 1..(i - 1) : ~ok(j)
        ELSE 0

ConventionParams(task, context, current_tasks) ==
    LET input_data == context.input_data IN
    IF task.tool_name = "process_receipt" THEN
        IF Truthy(Get(input_data, "image_data"))
        THEN [k \in {"image_data"} |-> input_data["image_data"]] ELSE NoParams
    ELSE IF task.tool_name = "extract_text_expense" THEN
        IF Truthy(Get(input_data, "text"))
        THEN [k \in {"text"} |-> input_data["text"]] ELSE NoParams
    ELSE IF task.tool_name = "save_to_sheets" THEN
        LET date == IF Truthy(Get(input_data, "message_date"))
                    THEN [k \in {"message_date"} |-> input_data["message_date"]]
                    ELSE NoParams
            src == ExpenseSource(current_tasks)
        IN  IF src = 0 THEN date
            ELSE Update(date, [k \in {"expense_data"} |-> current_tasks[src].result])
    ELSE NoParams

\* mutant: the values found by convention win over the declared ones
ToolParams_convention(task, context, current_tasks) ==
    Update(task.parameters, ConventionParams(task, context, current_tasks))

ToolParams(task, context, current_tasks) ==
    Update(ConventionParams(task, context, current_tasks), task.parameters)

\* execute_reasoning_task of the two agents (agent-specific reasoning)
execute_reasoning_task(agent, task, behaviour) ==
    IF agent = ReceiptAgent THEN
        IF task.type = "reason"
        THEN AgentResult(TRUE, "Reasoning completed", DictVal(<<T("reasoning")>>), NoneVal)
        ELSE AgentResult(TRUE, "Task completed", DictVal(<<>>), NoneVal)
    ELSE
        IF task.type \in {"analyze", "reason"}
        THEN AgentResult(TRUE, "Text reasoning completed", DictVal(<<>>), NoneVal)
        ELSE IF task.type = "validate"
        THEN IF behaviour = "raise"
             THEN AgentResult(FALSE, "Text reasoning task failed", NoneVal,
                              StrVal(<<T("exception")>>))
             ELSE AgentResult(TRUE, "Text data validation completed",
                              DictVal(<<T("validation")>>), NoneVal)
        ELSE AgentResult(FALSE, "Unknown reasoning task type", NoneVal,
                         StrVal(<<T("Unsupported task type")>>))

\* the result execute_task returns for a task, given what the tool or the
\* reasoning does
TaskOutcome(agent, task, context, current_tasks, behaviour) ==
    IF task.tool_name # NoTool /\ ~IsDict(task.parameters) THEN
        \* tool_params.update(task.parameters) raises: the except clause
        AgentResult(FALSE, "Task execution failed", NoneVal, StrVal(<<T("TypeError")>>))
    ELSE IF task.tool_name # NoTool THEN
        LET tool_result == execute_tool(task.tool_name,
                                        ToolParams(task, context, current_tasks), behaviour)
        IN  IF tool_result = Raised
            THEN AgentResult(FALSE, "Task execution failed", NoneVal, StrVal(Raised))
            ELSE IF StartsWithError(tool_result)
            THEN AgentResult(FALSE, "Task failed", NoneVal, StrVal(tool_result))
            ELSE AgentResult(TRUE, "Task completed",
                             DictVal(<<T("task_result")>> \o tool_result), NoneVal)
    ELSE execute_reasoning_task(agent, task, behaviour)

\* mutant: the task is marked completed whatever the tool returned
TaskAfter_completed(task, result) ==
    [task EXCEPT !.status = "completed", !.result = result.data]

\* mutant: a task that fails keeps the status execute_task gave it at its start
TaskAfter_running(task, result) ==
    IF result.success
    THEN [task EXCEPT !.status = "completed", !.result = result.data]
    ELSE task

\* the task as execute_task leaves it
TaskAfter(task, result) ==
    IF task.tool_name # NoTool THEN
        IF result.success
        THEN [task EXCEPT !.status = "completed",
                          !.result = StrVal(Tail(result.data.text))]
        ELSE [task EXCEPT !.status = "failed"]
    ELSE [task EXCEPT !.status = IF result.success THEN "completed" ELSE "failed",
                      !.result = result.data]

(***************************************************************************)
(* Synthesis (receipt_processing.py and text_expense.py                    *)
(* synthesize_results).                                                    *)
(***************************************************************************)
Successful(results) == SelectSeq(results, LAMBDA r : r.success)

\* JSONExtractor.extract_json_from_text: something decoded, or None
ExtractsJson(text) ==
    /\ ~StartsWithError(text)
    /\ Find(text, "{") # 0 /\ RFind(text, "}") > Find(text, "{")
    /\ RFind(text, "}") = Find(text, "{") + 2
    /\ text[Find(text, "{") + 1].tok \in {"items", "object"}

\* text agent: extracted_data after the scan over the successful results;
\* every result whose data mentions 'items' overwrites it
RECURSIVE TextExtracted(_, _)
TextExtracted(successful, extracted) ==
    IF successful = <<>> THEN extracted
    ELSE LET r == Head(successful)
             next == IF Truthy(r.data) /\ Contains(r.data.text, "items")
                        /\ Contains(r.data.text, "task_result")
                     THEN ExtractsJson(Tail(r.data.text))
                     ELSE extracted
         IN  TextExtracted(Tail(successful), next)

\* the outcome, or SynthesisRaised when an exception leaves the call (the
\* text agent formats context['confidence'] with ':.2f')
SynthesisRaised == AgentResult(FALSE, "<raised>", NoneVal, NoneVal)

\* mutant: a run without any successful task is reported as a success
synthesize_results_lenient(agent, results, confidence_ok) ==
    AgentResult(TRUE, "Processing completed", DictVal(<<T("plan_summary")>>), NoneVal)

synthesize_results(agent, results, confidence_ok) ==
    IF Successful(results) = <<>> THEN
        IF agent = ReceiptAgent
        THEN AgentResult(FALSE, "Receipt processing failed - no successful tasks",
                         NoneVal, StrVal(<<T("All tasks failed")>>))
        ELSE AgentResult(FALSE, "All text processing tasks failed",
                         NoneVal, StrVal(<<T("No successful task results to synthesize")>>))
    ELSE IF agent = ReceiptAgent THEN
        AgentResult(TRUE, "Receipt processed", DictVal(<<T("plan_summary")>>), NoneVal)
    ELSE IF TextExtracted(Successful(results), FALSE) THEN
        IF confidence_ok
        THEN AgentResult(TRUE, "Agentic Text Processing Complete",
                         DictVal(<<T("plan_summary")>>), NoneVal)
        ELSE SynthesisRaised
    ELSE AgentResult(FALSE, "Text processing completed but no valid expense data extracted",
                     NoneVal,
                     StrVal(<<T("Failed to extract structured expense data from text")>>))

(***************************************************************************)
(* State.                                                                  *)
(***************************************************************************)
VARIABLES
    q_tasks,       \* SpecPlan: the task list of the plan under query
    q_obs,         \* SpecPlan: the last query made on it and what it returned
    pc,            \* position of the request inside AgenticBaseAgent.execute
    agent,         \* the agent executing the request
    context,       \* the context analyze_input built
    plans,         \* the Plan objects still referenced, by reference
    plan,          \* execute_plan's local variable plan (a reference, 0 = none)
    current_plan,  \* the agent's field current_plan (a reference, 0 = None)
    ready_tasks,   \* the list the for loop iterates: owning plan, remaining positions
    task,          \* the task execute_task is running: owning plan, position
    results,       \* execute_plan's list of task results
    task_result,   \* the result of the last execute_task call
    final_result,  \* the result execute_plan returned to execute
    outcome,       \* what execute returned (or that it raised)
    adapted,       \* number of adapt_plan calls made in this run
    seen,          \* observations of the run used to state its properties
    route          \* the manager's intelligent_route_request in progress

vars == <<q_tasks, q_obs, pc, agent, context, plans, plan, current_plan, ready_tasks,
          task, results, task_result, final_result, outcome, adapted, seen, route>>

plan_vars == <<q_tasks, q_obs>>
agent_vars == <<pc, agent, context, plans, plan, current_plan, ready_tasks,
                task, results, task_result, final_result, outcome, adapted, seen>>

NoContext == [input_type |-> "unknown", input_data |-> <<>>]
\* current_tasks: the tasks of self.current_plan as execute_task read them
NoTask == [ref |-> 0, pos |-> 0, current_tasks |-> <<>>]
NoReady == [ref |-> 0, queue |-> <<>>]
NoOutcome == [returned |-> FALSE, raised |-> FALSE, result |-> NoResult]
\* what execute's local variable plan, the plan create_plan returned, gives
\* to remember_experience: its id, its goal and the number of its tasks
NoCreated == [id |-> <<>>, goal |-> "", tasks_count |-> 0]
PlanSummary(p) == [id |-> p.id, goal |-> p.goal, tasks_count |-> Len(p.tasks)]

\* AgentMemory(): the experiences and the two pattern counters
AgentMemory == [experiences |-> <<>>, successful_patterns |-> <<>>,
                failed_patterns |-> <<>>]

NoSeen == [planning |-> "none", adaptation |-> "none", replaced |-> FALSE,
           deadlock |-> FALSE, synthesized |-> 0, bypass |-> FALSE,
           escaped |-> "none", tool_name |-> NoTool, tool_text |-> <<>>,
           task_status |-> "none", task_stored |-> NoneVal,
           created |-> NoCreated]

NoAgent == "None"
NoRouting == [best_agent |-> NoAgent, requires_collaboration |-> FALSE,
              collaborative_agents |-> <<>>, confidence |-> 0]
NoSummary == [successful_agents |-> 0, total_agents |-> 0]
NoRoute == [pc |-> "idle", kwargs |-> <<>>, routing_analysis |-> NoRouting,
            queue |-> <<>>, results |-> <<>>, shared_context |-> <<>>,
            outcome |-> NoOutcome, escaped |-> "none", fallback |-> FALSE,
            collaboration_summary |-> NoSummary,
            dispatched |-> <<>>, global_context |-> <<>>,
            memory |-> [a \in Agents |-> AgentMemory], reset |-> "none",
            agent_collaboration_history |-> <<>>]

AgentIdle ==
    /\ pc = "idle" /\ agent = ReceiptAgent /\ context = NoContext
    /\ plans = <<>> /\ plan = 0 /\ current_plan = 0
    /\ ready_tasks = NoReady /\ task = NoTask
    /\ results = <<>> /\ task_result = NoResult /\ final_result = NoResult
    /\ outcome = NoOutcome
    /\ adapted = 0 /\ seen = NoSeen

(***************************************************************************)
(* SpecPlan: the Plan queries on every plan and status assignment.         *)
(***************************************************************************)
PlanIds == {"a", "b"}
QueryTask == [id : PlanIds, dependencies : SUBSET PlanIds, status : TaskStatus]
QueryPlans == UNION {[1..n -> QueryTask] : n \in 0..MaxLen}
NoObs == [op |-> "none", ready |-> <<>>, flag |-> FALSE, again |-> FALSE]

InitPlan ==
    /\ q_tasks \in QueryPlans
    /\ q_obs = NoObs
    /\ AgentIdle
    /\ route = NoRoute

GetNextTasks ==
    /\ q_obs' = [op |-> "get_next_tasks", ready |-> get_next_tasks(q_tasks),
                 flag |-> FALSE, again |-> (q_obs.op = "get_next_tasks")]
    /\ UNCHANGED <<q_tasks, agent_vars, route>>

IsComplete ==
    /\ q_obs' = [op |-> "is_complete", ready |-> <<>>,
                 flag |-> is_complete(q_tasks), again |-> FALSE]
    /\ UNCHANGED <<q_tasks, agent_vars, route>>

HasFailed ==
    /\ q_obs' = [op |-> "has_failed", ready |-> <<>>,
                 flag |-> has_failed(q_tasks), again |-> FALSE]
    /\ UNCHANGED <<q_tasks, agent_vars, route>>

\* the owning agent moves a task to another status (execute_task)
SetStatus ==
    /\ \E i \in 1..Len(q_tasks), s \in TaskStatus :
          /\ s # q_tasks[i].status
          /\ q_tasks' = [q_tasks EXCEPT ![i].status = s]
    /\ q_obs' = NoObs
    /\ UNCHANGED <<agent_vars, route>>

NextPlan == GetNextTasks \/ IsComplete \/ HasFailed \/ SetStatus

SpecPlan == InitPlan /\ [][NextPlan]_vars

(***************************************************************************)
(* What the oracle may answer.                                             *)
(***************************************************************************)
\* plans of up to two tasks; each task may depend on the other one's id, so
\* chains, independent tasks, a task that waits for a later one, a cycle and
\* (in a one-task plan) a dependency on an id no task has all occur;
\* "ocr_tool" is a tool name the registry does not know
OracleBindings == {<<"extract", "extract_text_expense">>, <<"save", "save_to_sheets">>,
                   <<"process", "ocr_tool">>}
OracleTaskData(id, other) ==
    {[id |-> id, type |-> b[1], tool_name |-> b[2], parameters |-> NoParams,
      dependencies |-> d] : b \in OracleBindings, d \in {{}, {other}}}
OracleTaskLists ==
    {<<>>} \cup {<<t>> : t \in OracleTaskData("task_1", "task_2")}
           \cup {<<t, u>> : t \in OracleTaskData("task_1", "task_2"),
                            u \in OracleTaskData("task_2", "task_1")}
UnknownKindTasks ==
    << [id |-> "task_1", type |-> "summarize", tool_name |-> NoTool,
        parameters |-> NoParams, dependencies |-> {}] >>
NullParamsTasks ==
    << [id |-> "task_1", type |-> "extract", tool_name |-> "extract_text_expense",
        parameters |-> NullParams, dependencies |-> {}] >>
DuplicateIdTasks ==
    << [id |-> "task_1", type |-> "extract", tool_name |-> "extract_text_expense",
        parameters |-> NoParams, dependencies |-> {}],
       [id |-> "task_1", type |-> "save", tool_name |-> "save_to_sheets",
        parameters |-> NoParams, dependencies |-> {"task_1"}] >>
OracleTexts ==
    {<<>>, ErrorText, <<T("prose")>>, <<T("{"), T("prose"), T("}")>>,
     <<T("{"), Obj(PlanJson(UnknownKindTasks)), T("}")>>,
     <<T("{"), Obj(PlanJson(NullParamsTasks)), T("}")>>,
     <<T("{"), Obj(PlanJson(DuplicateIdTasks)), T("}")>>}
    \cup {<<T("{"), Obj(PlanJson(tasks)), T("}")>> : tasks \in OracleTaskLists}
Transports ==
    {[kind |-> "raise", text |-> <<>>], [kind |-> "none", text |-> <<>>]}
    \cup {[kind |-> "text", text |-> t] : t \in OracleTexts}

\* how an oracle answer looks to the caller: failed call, no usable plan, plan
AnswerKind(transport) ==
    LET response == GeminiCall(transport) IN
    IF ~Truthy(response) \/ StartsWithError(response.text) THEN "failed"
    ELSE IF Find(response.text, "{") = 0
            \/ RFind(response.text, "}") <= Find(response.text, "{")
            \/ ~Decodable(response.text, Find(response.text, "{"), RFind(response.text, "}"))
         THEN "noplan"
         ELSE "plan"

(***************************************************************************)
(* The agent: AgenticBaseAgent.execute and what it calls.                  *)
(***************************************************************************)
Returned(result) == [returned |-> TRUE, raised |-> FALSE, result |-> result]

\* mutant: the except clause lets the exception go on to the caller
execute_reraise(e) == [returned |-> FALSE, raised |-> TRUE, result |-> NoResult]

\* the except clause of execute
execute_except(e) ==
    Returned(AgentResult(FALSE, "Agent execution failed", NoneVal, StrVal(<<T(e)>>)))

Live(ps, refs) == [r \in (DOMAIN ps) \cap refs |-> ps[r]]

\* a call of execute on an agent at rest, up to the end of analyze_input
ExecuteCall(a, kw) ==
    /\ agent' = a
    /\ IF AnalysisRaises(a, kw)
       THEN /\ outcome' = execute_except("analysis")
            /\ seen' = [NoSeen EXCEPT !.escaped = "analysis"]
            /\ pc' = "returned"
            /\ context' = NoContext
       ELSE /\ context' = [input_type |-> _determine_input_type(kw), input_data |-> kw]
            /\ pc' = "create_plan"
            /\ outcome' = NoOutcome
            /\ seen' = NoSeen
    /\ plans' = <<>> /\ plan' = 0 /\ current_plan' = 0
    /\ ready_tasks' = NoReady /\ task' = NoTask
    /\ results' = <<>> /\ task_result' = NoResult /\ final_result' = NoResult
    /\ adapted' = 0

\* execute called directly
Execute(a, kw) ==
    /\ pc = "idle"
    /\ ExecuteCall(a, kw)
    /\ UNCHANGED <<plan_vars, route>>

create_plan(transport, ctx) ==
    _parse_plan_response(_call_planning_ai(transport), ctx)

CreatePlan(transport) ==
    /\ pc = "create_plan"
    /\ plans' = (1 :> create_plan(transport, context))
    /\ plan' = 1
    /\ current_plan' = 1
    /\ seen' = [seen EXCEPT !.planning = AnswerKind(transport),
                            !.created = PlanSummary(create_plan(transport, context))]
    /\ pc' = "execute_plan"
    /\ UNCHANGED <<plan_vars, route, agent, context, ready_tasks, task, results, task_result,
                   final_result, outcome, adapted>>

\* AgenticBaseAgent defines no _execute_tool: the attribute lookup raises
\* inside the try and the except clause answers
_execute_fallback_processing(ctx) ==
    IF \/ ctx.input_type = "image" /\ Truthy(Get(ctx.input_data, "image_data"))
       \/ ctx.input_type = "text" /\ Truthy(Get(ctx.input_data, "text"))
    THEN AgentResult(FALSE, "Fallback processing failed", NoneVal,
                     StrVal(<<T("object has no attribute _execute_tool")>>))
    ELSE AgentResult(FALSE, "Fallback processing failed", NoneVal,
                     StrVal(<<T("No suitable fallback strategy found")>>))

\* execute_plan, up to the first test of the while loop
ExecutePlan ==
    /\ pc = "execute_plan"
    /\ plans' = [plans EXCEPT ![plan].status = "executing"]
    /\ results' = <<>>
    /\ IF plans[plan].tasks = <<>>
       THEN /\ final_result' = _execute_fallback_processing(context)
            /\ seen' = [seen EXCEPT !.bypass = TRUE]
            /\ pc' = "remember"
       ELSE /\ pc' = "while"
            /\ UNCHANGED <<final_result, seen>>
    /\ UNCHANGED <<plan_vars, route, agent, context, plan, current_plan, ready_tasks, task,
                   task_result, outcome, adapted>>

\* mutant: the loop tests again instead of stopping
NoReadyTasks_spin == "while"

\* where the loop goes when no task is ready (the break)
NoReadyTasks == "synthesize"

\* the while test and plan.get_next_tasks()
Loop ==
    /\ pc = "while"
    /\ LET tasks == plans[plan].tasks IN
       IF is_complete(tasks) \/ has_failed(tasks)
       THEN /\ pc' = "synthesize"
            /\ UNCHANGED <<ready_tasks, seen>>
       ELSE IF get_next_tasks(tasks) = <<>>
       THEN /\ pc' = NoReadyTasks
            /\ seen' = [seen EXCEPT !.deadlock = TRUE]
            /\ UNCHANGED ready_tasks
       ELSE /\ ready_tasks' = [ref |-> plan, queue |-> get_next_tasks(tasks)]
            /\ pc' = "for"
            /\ UNCHANGED seen
    /\ UNCHANGED <<plan_vars, route, agent, context, plans, plan, current_plan, task, results,
                   task_result, final_result, outcome, adapted>>

\* the for loop takes its next task; execute_task marks it running and
\* reads the tasks of self.current_plan for the tool parameters, all before
\* it waits for the tool
StartTask ==
    /\ pc = "for"
    /\ plans' = [plans EXCEPT ![ready_tasks.ref].tasks[Head(ready_tasks.queue)].status = "running"]
    /\ task' = [ref |-> ready_tasks.ref, pos |-> Head(ready_tasks.queue),
                current_tasks |-> plans'[current_plan].tasks]
    /\ ready_tasks' = [ready_tasks EXCEPT !.queue = Tail(@)]
    /\ pc' = "task"
    /\ UNCHANGED <<plan_vars, route, agent, context, plan, current_plan, results, task_result,
                   final_result, outcome, adapted, seen>>

\* after a loop body: the next task of the list, or back to the while test,
\* where the list and a superseded plan it came from are dropped; cp is what
\* self.current_plan refers to
AfterBody(ps, p, cp, rt) ==
    IF rt.queue # <<>>
    THEN [pc |-> "for", plans |-> Live(ps, {p, cp, rt.ref}), ready_tasks |-> rt]
    ELSE [pc |-> "while", plans |-> Live(ps, {p, cp}), ready_tasks |-> NoReady]

\* mutant: a failed task is passed over
NeedsAdaptation_never(result) == FALSE

\* 'if not task_result.success': adapt_plan is called
NeedsAdaptation(result) == ~result.success

\* the tool or the reasoning returns and execute_task ends
FinishTask(behaviour) ==
    /\ pc = "task"
    /\ LET tk == plans[task.ref].tasks[task.pos]
           result == TaskOutcome(agent, tk, context, task.current_tasks, behaviour)
           ps == [plans EXCEPT ![task.ref].tasks[task.pos] = TaskAfter(tk, result)]
           nxt == AfterBody(ps, plan, current_plan, ready_tasks)
       IN  /\ task_result' = result
           /\ results' = Append(results, result)
           /\ seen' = [seen EXCEPT
                         !.tool_name = IF IsDict(tk.parameters) THEN tk.tool_name
                                       ELSE NoTool,
                         !.tool_text = IF tk.tool_name = NoTool \/ ~IsDict(tk.parameters)
                                       THEN <<>>
                                       ELSE execute_tool(tk.tool_name,
                                                ToolParams(tk, context, task.current_tasks),
                                                behaviour),
                         !.task_status = TaskAfter(tk, result).status,
                         !.task_stored = TaskAfter(tk, result).result]
           /\ IF ~NeedsAdaptation(result)
              THEN /\ pc' = nxt.pc
                   /\ plans' = nxt.plans
                   /\ ready_tasks' = nxt.ready_tasks
                   /\ task' = IF nxt.pc = "while" THEN NoTask ELSE task
              ELSE /\ pc' = "adapt"
                   /\ plans' = ps
                   /\ UNCHANGED <<ready_tasks, task>>
    /\ UNCHANGED <<plan_vars, route, agent, context, plan, current_plan, final_result, outcome,
                   adapted>>

\* adapt_plan: the plan it returns (none: it returned None)
adapt_plan(old, transport, ctx) ==
    [none |-> FALSE,
     plan |-> [_parse_plan_response(GeminiCall(transport), ctx)
                 EXCEPT !.id = old.id \o <<"adapted">>]]

\* 'if adapted_plan:': a Plan object is always true
Replaces(adapted_plan) == ~adapted_plan.none

AdaptPlan(transport) ==
    /\ pc = "adapt"
    /\ adapted < MaxAdapt
    /\ adapted' = adapted + 1
    /\ LET adapted_plan == adapt_plan(plans[plan], transport, context)
           new == IF Replaces(adapted_plan) THEN plan + 1 ELSE plan
           ps == IF Replaces(adapted_plan)
                 THEN (new :> adapted_plan.plan) @@ plans ELSE plans
           nxt == AfterBody(ps, new, new, ready_tasks)
       IN  /\ plan' = new
           /\ current_plan' = new
           /\ pc' = nxt.pc
           /\ plans' = nxt.plans
           /\ ready_tasks' = nxt.ready_tasks
           /\ task' = IF nxt.pc = "while" THEN NoTask ELSE task
           /\ seen' = [seen EXCEPT !.adaptation = AnswerKind(transport),
                                   !.replaced = Replaces(adapted_plan)]
    /\ UNCHANGED <<plan_vars, route, agent, context, results, task_result, final_result, outcome>>

\* synthesize_results and the plan's final status; an exception leaving
\* synthesize_results leaves execute_plan and is answered by execute.
\* confidence_ok: context['confidence'], which the analysis oracle supplied,
\* is a number (it is read nowhere before)
Synthesize(confidence_ok) ==
    /\ pc = "synthesize"
    /\ LET r == synthesize_results(agent, results, confidence_ok) IN
       IF r = SynthesisRaised
       THEN /\ outcome' = execute_except("synthesis")
            /\ seen' = [seen EXCEPT !.synthesized = @ + 1, !.escaped = "synthesis"]
            /\ pc' = "returned"
            /\ UNCHANGED <<final_result, plans>>
       ELSE /\ final_result' = r
            /\ plans' = [plans EXCEPT ![plan].status =
                                         IF r.success THEN "completed" ELSE "failed"]
            /\ seen' = [seen EXCEPT !.synthesized = @ + 1]
            /\ pc' = "remember"
            /\ UNCHANGED outcome
    /\ UNCHANGED <<plan_vars, route, agent, context, plan, current_plan, ready_tasks, task,
                   results, task_result, adapted>>

\* the record remember_experience appends and the key of its pattern
Experience(ctx, created, result) ==
    [input_type |-> ctx.input_type, plan_id |-> created.id, goal |-> created.goal,
     tasks_count |-> created.tasks_count, success |-> result.success]
PatternKey(created) == [goal |-> created.goal, tasks_count |-> created.tasks_count]
Counted(patterns, pattern_key) ==
    Update(patterns, [k \in {pattern_key} |->
                        (IF pattern_key \in DOMAIN patterns THEN patterns[pattern_key] ELSE 0) + 1])

\* mutant: the memory keeps the newest experience only
remember_experience_newest(memory, ctx, created, result) ==
    [memory EXCEPT !.experiences = <<Experience(ctx, created, result)>>]

\* mutant: every experience is counted as a successful pattern
remember_experience_success(memory, ctx, created, result) ==
    [memory EXCEPT !.experiences = Append(@, Experience(ctx, created, result)),
                   !.successful_patterns = Counted(@, PatternKey(created))]

\* AgentMemory.remember_experience; of an experience the context's input
\* type, the plan's id, goal and number of tasks and the outcome's success
\* are kept
remember_experience(memory, ctx, created, result) ==
    [memory EXCEPT !.experiences = Append(@, Experience(ctx, created, result)),
                   !.successful_patterns =
                      IF result.success THEN Counted(@, PatternKey(created)) ELSE @,
                   !.failed_patterns =
                      IF result.success THEN @ ELSE Counted(@, PatternKey(created))]

\* memory.remember_experience and the return of execute; the agents'
\* memories are kept with the manager that owns the agents
Remember ==
    /\ pc = "remember"
    /\ route' = [route EXCEPT !.memory[agent] =
                                 remember_experience(@, context, seen.created,
                                                     final_result)]
    /\ outcome' = Returned(final_result)
    /\ pc' = "returned"
    /\ UNCHANGED <<plan_vars, agent, context, plans, plan, current_plan, ready_tasks,
                   task, results, task_result, final_result, adapted, seen>>

Init ==
    /\ q_tasks = <<>> /\ q_obs = NoObs
    /\ AgentIdle
    /\ route = NoRoute

Next ==
    \/ \E a \in Agents, kw \in Kwargs : Execute(a, kw)
    \/ \E transport \in Transports : CreatePlan(transport)
    \/ ExecutePlan
    \/ Loop
    \/ StartTask
    \/ \E behaviour \in ToolBehaviour : FinishTask(behaviour)
    \/ \E transport \in Transports : AdaptPlan(transport)
    \/ \E confidence_ok \in BOOLEAN : Synthesize(confidence_ok)
    \/ Remember

Spec == Init /\ [][Next]_vars

(***************************************************************************)
(* SpecConcurrent: a second execute on the same agent object, which runs   *)
(* while this request waits for the oracle or for a tool.  Of the second   *)
(* request's steps those are modelled that change what this request reads: *)
(* the assignment of its plan to self.current_plan and the end of its      *)
(* extraction task.                                                        *)
(***************************************************************************)
\* the reference the second request's local variable plan holds
OtherPlan == 9
\* the second request's message and what the extraction tool answers for it
OtherContext == [input_type |-> "text", input_data |-> [k \in {"text"} |-> Payload]]
OtherRequestJson == <<T("{"), T("object"), T("}")>>
\* the oracle's answers to the second request: nothing, and an extraction
\* followed by a save
OtherTransports ==
    {[kind |-> "none", text |-> <<>>],
     [kind |-> "text",
      text |-> <<T("{"),
                 Obj(PlanJson(<<[id |-> "task_1", type |-> "extract",
                                 tool_name |-> "extract_text_expense",
                                 parameters |-> NoParams, dependencies |-> {}],
                                [id |-> "task_2", type |-> "save",
                                 tool_name |-> "save_to_sheets",
                                 parameters |-> NoParams, dependencies |-> {"task_1"}]>>)),
                 T("}")>>]}

\* this request is suspended: it waits for the planning oracle, for a tool
\* or for the adaptation oracle
Suspended == pc \in {"create_plan", "task", "adapt"}

\* the second request's create_plan returns and execute assigns its plan to
\* self.current_plan
OtherExecute(transport) ==
    /\ Suspended
    /\ OtherPlan \notin DOMAIN plans
    /\ plans' = (OtherPlan :> create_plan(transport, OtherContext)) @@ plans
    /\ current_plan' = OtherPlan
    /\ UNCHANGED <<plan_vars, route, pc, agent, context, plan, ready_tasks, task, results,
                   task_result, final_result, outcome, adapted, seen>>

\* the second request's execute_task, from start to end, on an extraction
\* task its plan has ready
OtherExecuteTask(behaviour) ==
    /\ Suspended
    /\ OtherPlan \in DOMAIN plans
    /\ LET tasks == plans[OtherPlan].tasks
           ready == get_next_tasks(tasks)
       IN  /\ ready # <<>>
           /\ tasks[Head(ready)].tool_name = "extract_text_expense"
           /\ LET tk == tasks[Head(ready)]
                  answer == execute_tool(tk.tool_name, ToolParams(tk, OtherContext, tasks),
                                         behaviour)
                  tool_result == IF answer = ExpenseJson THEN OtherRequestJson ELSE answer
                  result == IF StartsWithError(tool_result)
                            THEN AgentResult(FALSE, "Task failed", NoneVal, StrVal(tool_result))
                            ELSE AgentResult(TRUE, "Task completed",
                                             DictVal(<<T("task_result")>> \o tool_result),
                                             NoneVal)
              IN  plans' = [plans EXCEPT ![OtherPlan].tasks[Head(ready)] = TaskAfter(tk, result)]
    /\ UNCHANGED <<plan_vars, route, pc, agent, context, plan, current_plan, ready_tasks, task,
                   results, task_result, final_result, outcome, adapted, seen>>

NextConcurrent ==
    \/ Next
    \/ \E transport \in OtherTransports : OtherExecute(transport)
    \/ \E behaviour \in ToolBehaviour : OtherExecuteTask(behaviour)

SpecConcurrent == Init /\ [][NextConcurrent]_vars


(***************************************************************************)
(* The manager: AgenticAgentManager.intelligent_route_request and what it  *)
(* calls (src/src/agents/manager.py).                                      *)
(***************************************************************************)
\* a request value json.dumps cannot serialize
ObjectVal == [type |-> "object", text |-> <<>>]
RouteKwargs == Kwargs \cup [{"text"} -> {ObjectVal}]

\* a name that is no registered agent, and a JSON array where a name is
\* expected (unhashable: 'in self.agents' raises TypeError)
UnknownAgent == "Unknown Agent"
ListName == "[...]"

\* what the routing oracle may answer; confidence is in tenths, and the
\* oracle's own figure is only copied by the manager
Routing(best_agent, requires_collaboration, collaborative_agents) ==
    [best_agent |-> best_agent, requires_collaboration |-> requires_collaboration,
     collaborative_agents |-> collaborative_agents, confidence |-> 9]
\* the three decisions of the except clause of _analyze_request_for_routing
FallbackRouting(best_agent, tenths) ==
    [best_agent |-> best_agent, requires_collaboration |-> FALSE,
     collaborative_agents |-> <<>>, confidence |-> tenths]
RoutingData ==
    {Routing(b, FALSE, <<>>) : b \in Agents \cup {UnknownAgent, NoAgent, ListName}}
    \cup {Routing(b, TRUE, <<>>) : b \in {TextAgent, NoAgent}}
    \cup {Routing(NoAgent, TRUE, l) :
            l \in {<<ReceiptAgent, TextAgent>>, <<UnknownAgent, TextAgent, ListName>>}}
RoutingTransports ==
    {[kind |-> k, data |-> NoRouting] : k \in {"raise", "none", "prose", "malformed"}}
    \cup {[kind |-> "json", data |-> d] : d \in RoutingData}

Serializable(kw) == \A k \in DOMAIN kw : kw[k].type # "object"

\* mutant: the fallback looks for text before it looks for an image
_analyze_request_for_routing_text(kw, transport) ==
    IF ~Serializable(kw)
    THEN [raised |-> TRUE, fallback |-> FALSE, analysis |-> NoRouting]
    ELSE IF transport.kind = "json"
    THEN [raised |-> FALSE, fallback |-> FALSE, analysis |-> transport.data]
    ELSE [raised |-> FALSE, fallback |-> TRUE,
          analysis |-> IF "text" \in DOMAIN kw THEN FallbackRouting(TextAgent, 7)
                       ELSE IF "image_data" \in DOMAIN kw THEN FallbackRouting(ReceiptAgent, 7)
                       ELSE FallbackRouting(NoAgent, 3)]

\* _analyze_request_for_routing: the prompt is built before the try, so a
\* value json.dumps rejects raises out of the call; inside the try every
\* failure (an 'Error' text, None, no braces, undecodable JSON) falls back
\* to routing by the keys of the request
_analyze_request_for_routing(kw, transport) ==
    IF ~Serializable(kw)
    THEN [raised |-> TRUE, fallback |-> FALSE, analysis |-> NoRouting]
    ELSE IF transport.kind = "json"
    THEN [raised |-> FALSE, fallback |-> FALSE, analysis |-> transport.data]
    ELSE [raised |-> FALSE, fallback |-> TRUE,
          analysis |-> IF "image_data" \in DOMAIN kw THEN FallbackRouting(ReceiptAgent, 7)
                       ELSE IF "text" \in DOMAIN kw THEN FallbackRouting(TextAgent, 7)
                       ELSE FallbackRouting(NoAgent, 3)]

\* the except clause of intelligent_route_request
route_except(e) ==
    Returned(AgentResult(FALSE, "Request routing failed", NoneVal, StrVal(<<T(e)>>)))

\* the manager's global_context: a dict that starts empty and gets the keys
\* "recent_requests", "routing_history" and "agent_performance_insights"
RecentRequestsKept == 20
DecisionsBeforeInsights == 10
DecisionsAnalyzed == 50

LastOf(s, n) == IF Len(s) <= n THEN s ELSE SubSeq(s, Len(s) - n + 1, Len(s))

_determine_request_type(kw) ==
    IF "image_data" \in DOMAIN kw THEN "receipt_image"
    ELSE IF "text" \in DOMAIN kw THEN "text_expense"
    ELSE "unknown"

\* mutant: the list of recent requests is never cut
_update_global_context_uncut(gc, ra, kw) ==
    LET context_entry == [routing_analysis |-> ra,
                          request_type |-> _determine_request_type(kw)]
        recent_requests == IF "recent_requests" \in DOMAIN gc
                           THEN gc["recent_requests"] ELSE <<>>
    IN  Update(gc, [k \in {"recent_requests"} |-> Append(recent_requests, context_entry)])

_update_global_context(gc, ra, kw) ==
    LET context_entry == [routing_analysis |-> ra,
                          request_type |-> _determine_request_type(kw)]
        recent_requests == IF "recent_requests" \in DOMAIN gc
                           THEN gc["recent_requests"] ELSE <<>>
    IN  Update(gc, [k \in {"recent_requests"} |->
                      LastOf(Append(recent_requests, context_entry), RecentRequestsKept)])

\* the loop of _analyze_routing_patterns over the entries of history:
\* agent_performance[agent] counts "successes" and "total"
RECURSIVE AgentPerformance(_)
AgentPerformance(history) ==
    IF history = <<>> THEN <<>>
    ELSE LET before == AgentPerformance(SubSeq(history, 1, Len(history) - 1))
             entry == history[Len(history)]
             a == entry.routing_decision
             old == IF a \in DOMAIN before THEN before[a]
                    ELSE [successes |-> 0, total |-> 0]
         IN  Update(before,
                    [k \in {a} |->
                       [successes |-> old.successes + (IF entry.actual_success THEN 1 ELSE 0),
                        total |-> old.total + 1]])

\* success_rate is kept as the fraction successes / total
InsightsOf(agent_performance) ==
    [a \in DOMAIN agent_performance |->
       [success_rate |-> [num |-> agent_performance[a].successes,
                          den |-> agent_performance[a].total],
        total_requests |-> agent_performance[a].total]]

\* mutant: the whole history is analysed
_analyze_routing_patterns_all(gc) ==
    Update(gc, [k \in {"agent_performance_insights"} |->
                  InsightsOf(AgentPerformance(gc["routing_history"]))])

_analyze_routing_patterns(gc) ==
    LET history == LastOf(gc["routing_history"], DecisionsAnalyzed) IN
    Update(gc, [k \in {"agent_performance_insights"} |->
                  InsightsOf(AgentPerformance(history))])

_learn_from_routing(gc, ra, result, kw) ==
    LET learning_entry == [routing_decision |-> ra.best_agent,
                           confidence |-> ra.confidence,
                           actual_success |-> result.success,
                           request_type |-> _determine_request_type(kw)]
        routing_history == IF "routing_history" \in DOMAIN gc
                           THEN gc["routing_history"] ELSE <<>>
        learned == Update(gc, [k \in {"routing_history"} |->
                                 Append(routing_history, learning_entry)])
    IN  IF Len(learned["routing_history"]) >= DecisionsBeforeInsights
        THEN _analyze_routing_patterns(learned)
        ELSE learned

\* mutant: one failed agent fails the collaboration
_synthesize_collaborative_results_all(rs) ==
    IF \E i \in 1..Len(rs) : ~rs[i].result.success
    THEN AgentResult(FALSE, "All collaborative agents failed", NoneVal,
                     StrVal(<<T("No successful results from collaboration")>>))
    ELSE AgentResult(TRUE, "Multi-Agent Collaboration Complete",
                     DictVal(<<T("primary_data"), T("collaboration_summary"),
                               T("individual_results")>>), NoneVal)

_synthesize_collaborative_results(rs) ==
    IF \A i \in 1..Len(rs) : ~rs[i].result.success
    THEN AgentResult(FALSE, "All collaborative agents failed", NoneVal,
                     StrVal(<<T("No successful results from collaboration")>>))
    ELSE AgentResult(TRUE, "Multi-Agent Collaboration Complete",
                     DictVal(<<T("primary_data"), T("collaboration_summary"),
                               T("individual_results")>>), NoneVal)

\* "collaboration_summary" of the collaborative outcome's data
collaboration_summary(rs) ==
    [successful_agents |-> Cardinality({i \in 1..Len(rs) : rs[i].result.success}),
     total_agents |-> Len(rs)]

\* mutant: the list is walked from its end
NextCollaborator_last(queue) ==
    IF queue = <<>> THEN [kind |-> "done", agent |-> NoAgent, rest |-> <<>>]
    ELSE IF queue[Len(queue)] \in Agents
         THEN [kind |-> "run", agent |-> queue[Len(queue)],
               rest |-> SubSeq(queue, 1, Len(queue) - 1)]
         ELSE [kind |-> "raise", agent |-> NoAgent, rest |-> <<>>]

\* the for loop of _execute_collaborative_processing up to its next call of
\* agent.execute: names that are no registered agent are passed over
RECURSIVE NextCollaborator(_)
NextCollaborator(queue) ==
    IF queue = <<>> THEN [kind |-> "done", agent |-> NoAgent, rest |-> <<>>]
    ELSE IF Head(queue) = ListName THEN [kind |-> "raise", agent |-> NoAgent, rest |-> <<>>]
    ELSE IF Head(queue) \in Agents
         THEN [kind |-> "run", agent |-> Head(queue), rest |-> Tail(queue)]
         ELSE NextCollaborator(Tail(queue))

\* the request is over: the locals of the agent calls it made are gone
RouteReturns(r, out, why) ==
    /\ route' = [r EXCEPT !.pc = "returned", !.outcome = out, !.escaped = why]
    /\ pc' = "idle" /\ agent' = ReceiptAgent /\ context' = NoContext
    /\ plans' = <<>> /\ plan' = 0 /\ current_plan' = 0
    /\ ready_tasks' = NoReady /\ task' = NoTask
    /\ results' = <<>> /\ task_result' = NoResult /\ final_result' = NoResult
    /\ outcome' = NoOutcome
    /\ adapted' = 0 /\ seen' = NoSeen

\* enhanced_kwargs = {**kwargs, "shared_context": shared_context}; of the
\* shared context the request value keeps the keys
EnhancedKwargs(kw, shared_context) ==
    Update(kw, [k \in {"shared_context"} |->
                  DictVal(<<T("collaboration_id")>>
                          \o [i \in 1..Len(shared_context) |-> T(shared_context[i].key)])])

\* mutant: every result is merged, successful or not
SharedContextAfter_always(shared_context, agent_name, result) ==
    Append(shared_context, [key |-> agent_name, value |-> result.data])

\* shared_context[f"{agent_name}_result"] = result.data, for a successful
\* result with a payload; an existing key keeps its place
SharedContextAfter(shared_context, agent_name, result) ==
    IF ~(result.success /\ Truthy(result.data)) THEN shared_context
    ELSE IF \E i \in 1..Len(shared_context) : shared_context[i].key = agent_name
    THEN [i \in 1..Len(shared_context) |->
            IF shared_context[i].key = agent_name
            THEN [key |-> agent_name, value |-> result.data] ELSE shared_context[i]]
    ELSE Append(shared_context, [key |-> agent_name, value |-> result.data])

\* the entry appended to agent_collaboration_history after the synthesis
CollaborationRecord(r) ==
    [agents |-> r.routing_analysis.collaborative_agents,
     individual_results |-> r.results,
     final_result |-> _synthesize_collaborative_results(r.results).success]

Collaborate(r) ==
    LET n == NextCollaborator(r.queue) IN
    IF n.kind = "raise" THEN RouteReturns(r, route_except("collaboration"), "collaboration")
    ELSE IF n.kind = "run"
    THEN /\ route' = [r EXCEPT !.pc = "collaborative", !.queue = n.rest,
                              !.dispatched = Append(@, n.agent)]
         /\ ExecuteCall(n.agent, EnhancedKwargs(r.kwargs, r.shared_context))
    ELSE RouteReturns([r EXCEPT !.collaboration_summary =
                                   IF _synthesize_collaborative_results(r.results).success
                                   THEN collaboration_summary(r.results) ELSE NoSummary,
                                !.agent_collaboration_history =
                                   Append(@, CollaborationRecord(r))],
                      Returned(_synthesize_collaborative_results(r.results)), "none")

\* _execute_collaborative_processing up to its first call of agent.execute
_execute_collaborative_processing(r) ==
    LET ra == r.routing_analysis IN
    IF ra.collaborative_agents = <<>> /\ ra.best_agent \in Agents
    THEN /\ route' = [r EXCEPT !.pc = "collaborative_single",
                              !.dispatched = Append(@, ra.best_agent)]
         /\ ExecuteCall(ra.best_agent, r.kwargs)
    ELSE Collaborate([r EXCEPT !.queue = ra.collaborative_agents])

\* intelligent_route_request up to its first call of agent.execute
IntelligentRouteRequest(kw, transport) ==
    /\ route.pc = "idle" /\ pc = "idle"
    /\ LET a == _analyze_request_for_routing(kw, transport)
           ra == a.analysis
           r == [route EXCEPT !.kwargs = kw, !.routing_analysis = ra,
                              !.fallback = a.fallback]
       IN  IF a.raised THEN RouteReturns(r, route_except("routing"), "routing")
           ELSE IF ra.requires_collaboration THEN _execute_collaborative_processing(r)
           ELSE IF ra.best_agent = ListName
                THEN RouteReturns(r, route_except("routing"), "routing")
           ELSE IF ra.best_agent \in Agents
                THEN /\ route' = [r EXCEPT !.pc = "single",
                                          !.dispatched = Append(@, ra.best_agent),
                                          !.global_context =
                                             _update_global_context(@, ra, kw)]
                     /\ ExecuteCall(ra.best_agent, kw)
           ELSE RouteReturns(r, Returned(AgentResult(FALSE,
                                   "No suitable agent found for this request", NoneVal,
                                   StrVal(<<T("Agent routing failed")>>))), "none")
    /\ UNCHANGED plan_vars

\* agent.execute returns to the manager, which goes on to its return or to
\* the next call of agent.execute
AgentReturns ==
    /\ route.pc \in {"single", "collaborative_single", "collaborative"}
    /\ pc = "returned"
    /\ IF outcome.raised
       THEN RouteReturns(route, route_except("agent"), "agent")
       ELSE IF route.pc = "collaborative_single"
       THEN RouteReturns(route, Returned(outcome.result), "none")
       ELSE IF route.pc = "single"
       THEN RouteReturns([route EXCEPT !.global_context =
                             _learn_from_routing(@, route.routing_analysis,
                                                 outcome.result, route.kwargs)],
                         Returned(outcome.result), "none")
       ELSE LET result == outcome.result IN
            Collaborate([route EXCEPT
               !.results = Append(@, [agent |-> agent, result |-> result]),
               !.shared_context = SharedContextAfter(@, agent, result)])
    /\ UNCHANGED plan_vars

NextRoute ==
    \/ \E kw \in RouteKwargs, transport \in RoutingTransports :
          IntelligentRouteRequest(kw, transport)
    \/ \E transport \in Transports : CreatePlan(transport)
    \/ ExecutePlan
    \/ Loop
    \/ StartTask
    \/ \E behaviour \in ToolBehaviour : FinishTask(behaviour)
    \/ \E transport \in Transports : AdaptPlan(transport)
    \/ \E confidence_ok \in BOOLEAN : Synthesize(confidence_ok)
    \/ Remember
    \/ AgentReturns

SpecRoute == Init /\ [][NextRoute]_vars

(***************************************************************************)
(* Properties of the Task/Plan queries (SpecPlan).                         *)
(***************************************************************************)
StatusesOf(tasks) == {tasks[i].status : i \in 1..Len(tasks)}
IsReadyPos(tasks, i) ==
    /\ tasks[i].status = "pending"
    /\ \A d \in tasks[i].dependencies :
          \E j \in 1..Len(tasks) : tasks[j].id = d /\ tasks[j].status = "completed"

\* C9: get_next_tasks returns exactly the pending tasks all of whose
\* dependency ids are ids of completed tasks, in plan-insertion order; the
\* call changes no task status, and a second call with unchanged statuses
\* returns the same list.
C9_ReadyTasksExact ==
    /\ [](q_obs.op = "get_next_tasks" =>
            /\ \A k \in 1..(Len(q_obs.ready) - 1) : q_obs.ready[k] < q_obs.ready[k + 1]
            /\ {q_obs.ready[k] : k \in 1..Len(q_obs.ready)}
                 = {i \in 1..Len(q_tasks) : IsReadyPos(q_tasks, i)})
    /\ [][q_obs'.op = "get_next_tasks" =>
            /\ q_tasks' = q_tasks
            /\ (q_obs.op = "get_next_tasks" => q_obs'.ready = q_obs.ready)]_vars

C9_Witness ==
    /\ q_obs.op = "get_next_tasks" /\ q_obs.again
    /\ q_obs.ready # <<>>
    /\ \E i \in 1..Len(q_tasks) :
          q_tasks[i].status = "pending" /\ \A k \in 1..Len(q_obs.ready) : q_obs.ready[k] # i

\* C10: is_complete is true exactly when every task is completed or skipped
\* (so for a plan without tasks), has_failed exactly when some task is
\* failed, and the two never hold together.
C10_CompleteAndFailed ==
    /\ (q_obs.op = "is_complete" =>
          (q_obs.flag <=> StatusesOf(q_tasks) \subseteq {"completed", "skipped"}))
    /\ (q_obs.op = "has_failed" => (q_obs.flag <=> "failed" \in StatusesOf(q_tasks)))
    /\ ~(is_complete(q_tasks) /\ has_failed(q_tasks))

C10_Witness ==
    /\ q_obs.op = "is_complete" /\ q_obs.flag
    /\ "skipped" \in StatusesOf(q_tasks)

(***************************************************************************)
(* Properties of the agent's run (Spec).                                   *)
(***************************************************************************)
\* C1: execute_task is never started on a task unless every id in its
\* dependencies is the id of a completed task of the task's own plan, also
\* after adaptation has replaced the plan.
C1_DependenciesCompletedAtStart ==
    pc = "task" =>
        LET own == plans[task.ref].tasks IN
        \A d \in own[task.pos].dependencies :
            \E j \in 1..Len(own) : own[j].id = d /\ own[j].status = "completed"

C1_Witness ==
    /\ pc = "task" /\ adapted >= 1
    /\ plans[task.ref].tasks[task.pos].dependencies # {}

\* C3 (as claimed): when a task fails and the adaptation oracle call fails or
\* its answer holds no decodable plan, the original plan is kept, not
\* replaced, and still has a failed task.
C3_OriginalPlanKept ==
    seen.adaptation \in {"failed", "noplan"} =>
        ~seen.replaced /\ has_failed(plans[plan].tasks)

\* C4: when no task is ready while the plan is neither complete nor failed,
\* the loop stops, no further task is executed, and synthesize_results is
\* called exactly once on the results collected so far.
C4_DeadlockStopsLoop ==
    /\ [](seen.deadlock =>
            /\ pc \in {"synthesize", "remember", "returned"}
            /\ seen.synthesized = IF pc = "synthesize" THEN 0 ELSE 1)
    /\ [][seen.deadlock => results' = results]_vars

C4_Witness ==
    /\ seen.deadlock /\ pc = "returned" /\ results # <<>>

\* C5 (as claimed): when the planning oracle call fails, create_plan returns
\* the two-task fallback plan of the input type: an extract task bound to the
\* extractor of that type and a save task depending exactly on it.
C5_FallbackPlanOnPlanningFailure ==
    (pc = "execute_plan" /\ seen.planning = "failed"
     /\ context.input_type \in {"text", "image"}) =>
        LET tasks == plans[plan].tasks IN
        /\ Len(tasks) = 2
        /\ tasks[1].type = "extract"
        /\ tasks[1].tool_name = IF context.input_type = "text"
                                THEN "extract_text_expense" ELSE "process_receipt"
        /\ tasks[2].type = "save" /\ tasks[2].tool_name = "save_to_sheets"
        /\ tasks[2].dependencies = {tasks[1].id}

\* C6 (as claimed): on a plan without tasks execute_plan runs no task loop
\* and no synthesis; for an input with a payload it invokes the extractor of
\* the input type and, when that does not return an 'Error' text, the
\* persistence tool, and returns a success.
C6_BypassInvokesTools ==
    seen.bypass =>
        /\ results = <<>> /\ seen.synthesized = 0
        /\ (Truthy(Get(context.input_data,
                       IF context.input_type = "image" THEN "image_data" ELSE "text")) =>
              /\ seen.tool_name \in RegisteredTools
              /\ (seen.tool_name = "save_to_sheets" => final_result.success))

C8_NoSuccessGivesFixedFailure ==
    (pc \in {"remember", "returned"} /\ ~seen.bypass /\ seen.synthesized = 1
     /\ Successful(results) = <<>>) =>
        /\ ~final_result.success
        /\ final_result.error =
             StrVal(<<T(IF agent = ReceiptAgent THEN "All tasks failed"
                        ELSE "No successful task results to synthesize")>>)
        /\ plans[plan].status = "failed"

C8_Witness ==
    /\ pc = "returned" /\ ~seen.bypass /\ seen.synthesized = 1
    /\ results # <<>> /\ Successful(results) = <<>>
    /\ outcome.returned /\ ~outcome.result.success

\* C11 (as claimed): every plan create_plan returned or adaptation installed
\* has pairwise distinct task ids, and every dependency id of its tasks is
\* the id of a task of the same plan.
C11_PlansWellFormed ==
    plan # 0 =>
        LET tasks == plans[plan].tasks IN
        /\ \A i, j \in 1..Len(tasks) : tasks[i].id = tasks[j].id => i = j
        /\ \A i \in 1..Len(tasks) :
              tasks[i].dependencies \subseteq {tasks[j].id : j \in 1..Len(tasks)}

\* C19: the plan _create_fallback_plan returns has, for input type text,
\* exactly two tasks and one dependency edge (the save task depends on the
\* extract task, which depends on nothing); for input type image the same
\* shape bound to the image extractor; for any other input type exactly one
\* PROCESS task without tool and dependencies and with confidence 0.5; every
\* task starts pending.
C19_FallbackPlanShape ==
    (pc = "execute_plan" /\ seen.planning = "noplan") =>
        LET tasks == plans[plan].tasks IN
        /\ \A i \in 1..Len(tasks) : tasks[i].status = "pending"
        /\ IF context.input_type \in {"text", "image"}
           THEN /\ Len(tasks) = 2
                /\ tasks[1].type = "extract" /\ tasks[1].dependencies = {}
                /\ tasks[1].tool_name = IF context.input_type = "text"
                                        THEN "extract_text_expense" ELSE "process_receipt"
                /\ tasks[2].type = "save" /\ tasks[2].tool_name = "save_to_sheets"
                /\ tasks[2].dependencies = {tasks[1].id}
                /\ tasks[1].id # tasks[2].id
           ELSE /\ Len(tasks) = 1
                /\ tasks[1].type = "process" /\ tasks[1].tool_name = NoTool
                /\ tasks[1].dependencies = {} /\ tasks[1].confidence = 5

C19_Witness ==
    /\ pc = "execute_plan" /\ seen.planning = "noplan"
    /\ context.input_type = "image" /\ Len(plans[plan].tasks) = 2

\* the tasks of the plans of the run that are marked running
RunningTasks ==
    {rp \in UNION {{<<r, i>> : i \in 1..Len(plans[r].tasks)} : r \in DOMAIN plans} :
        plans[rp[1]].tasks[rp[2]].status = "running"}

\* C23: within one execute_plan run at most one task is running at any
\* moment: when execute_task starts on a task no other task of the request
\* is running, also after adaptation has replaced the plan.
C23_OneTaskInFlight ==
    /\ Cardinality(RunningTasks) <= 1
    /\ pc = "for" => RunningTasks = {}
    /\ pc = "task" => RunningTasks = {<<task.ref, task.pos>>}

C23_Witness ==
    /\ pc = "task" /\ adapted = 1 /\ seen.replaced
    /\ RunningTasks = {<<task.ref, task.pos>>}
    /\ \E i \in 1..Len(plans[task.ref].tasks) : plans[task.ref].tasks[i].status = "failed"

\* C24 (as claimed): adaptation replaces the running plan only by a plan
\* with at least one task; the replacement has another id than the plan it
\* replaces, and the next readiness computation is on the replacement.
C24_OnlyNonEmptyPlanReplaces ==
    /\ [][(pc = "adapt" /\ plan' # plan) =>
             /\ plans'[plan'].tasks # <<>>
             /\ plans'[plan'].id # plans[plan].id]_vars
    /\ [][(pc = "while" /\ pc' = "for") => ready_tasks'.ref = plan]_vars

\* C25 (as claimed): once adaptation has replaced the running plan, every
\* task started afterwards in the run is a task of the replacement plan.
C25_NoSupersededTaskStarts ==
    [][(pc = "for" /\ pc' = "task") => task'.ref = plan]_vars

\* C27: every execute_task call that returns an unsuccessful result is
\* followed, before another task starts, by one adapt_plan call with one
\* oracle call; the failure of a task never leaves execute_plan as an
\* exception.
C27_FailureIsFollowedByAdaptation ==
    /\ [][(pc = "task") =>
             /\ task_result'.success => pc' \in {"for", "while"}
             /\ ~task_result'.success =>
                   /\ pc' = "adapt" /\ adapted' = adapted
                   /\ outcome' = NoOutcome /\ task' = task]_vars
    /\ [][(pc = "adapt") =>
             /\ adapted' = adapted + 1
             /\ seen'.adaptation \in {"failed", "noplan", "plan"}
             /\ pc' \in {"for", "while"}
             /\ outcome' = NoOutcome]_vars
    /\ [][(pc' = "task") => pc = "for"]_vars
    /\ [](seen.escaped \in {"none", "analysis", "synthesis"})

C27_Witness ==
    /\ pc = "task" /\ adapted = 1 /\ ~task_result.success
    /\ results # <<>> /\ ~results[Len(results)].success

C36_SuccessMeansSaved ==
    (pc = "returned" /\ outcome.returned /\ outcome.result.success) =>
        \E i \in 1..Len(results) :
           /\ results[i].success
           /\ results[i].data = DictVal(<<T("task_result")>> \o SavedText)

\* C37: when execute_plan has returned from the task loop, the plan in force
\* is marked 'completed' only if each of its tasks is completed or skipped
C37_CompletedPlanHasNoOpenTask ==
    (/\ pc \in {"remember", "returned"}
     /\ seen.synthesized > 0
     /\ plan \in DOMAIN plans
     /\ plans[plan].status = "completed")
    => \A i \in 1..Len(plans[plan].tasks) :
          plans[plan].tasks[i].status \in {"completed", "skipped"}

\* C39: the experience record execute appends carries the id, the goal and
\* the number of tasks of the plan in force when the execution finished, the
\* agent's current plan
C39_ExperienceNamesPlanInForce ==
    (pc = "returned" /\ outcome.returned /\ seen.escaped = "none") =>
        LET experiences == route.memory[agent].experiences
            e == experiences[Len(experiences)]
        IN  /\ experiences # <<>>
            /\ e.plan_id = plans[current_plan].id
            /\ e.goal = plans[current_plan].goal
            /\ e.tasks_count = Len(plans[current_plan].tasks)

(***************************************************************************)
(* _analyze_request_for_routing as a function of the request and of what   *)
(* the routing oracle does: SpecAnalysis draws both and applies it once.   *)
(***************************************************************************)
AnalysisKeys == {"text", "image_data", "message_date"}
AnalysisKwargs ==
    UNION {[keys -> {Payload, NoneVal, ObjectVal}] : keys \in SUBSET AnalysisKeys}
NoAnalysis == [raised |-> FALSE, fallback |-> FALSE, analysis |-> NoRouting]

InitAnalysis ==
    /\ q_tasks \in [kwargs : AnalysisKwargs, transport : RoutingTransports]
    /\ q_obs = [op |-> "none", answer |-> NoAnalysis]
    /\ AgentIdle
    /\ route = NoRoute

AnalyzeRequest ==
    /\ q_obs.op = "none"
    /\ q_obs' = [op |-> "_analyze_request_for_routing",
                 answer |-> _analyze_request_for_routing(q_tasks.kwargs, q_tasks.transport)]
    /\ UNCHANGED <<q_tasks, agent_vars, route>>

NextAnalysis == AnalyzeRequest

SpecAnalysis == InitAnalysis /\ [][NextAnalysis]_vars

(***************************************************************************)
(* _parse_plan_response as a function of the response text and of the      *)
(* context: SpecParse draws both and applies it once (base.py 526-574).    *)
(***************************************************************************)
\* a task of a known kind followed by one of an unknown kind
PartialKindTasks ==
    << [id |-> "task_1", type |-> "extract", tool_name |-> "extract_text_expense",
        parameters |-> NoParams, dependencies |-> {}],
       [id |-> "task_2", type |-> "summarize", tool_name |-> NoTool,
        parameters |-> NoParams, dependencies |-> {"task_1"}] >>
ParseResponses ==
    {NoneVal}
    \cup {StrVal(t) : t \in OracleTexts}
    \cup {StrVal(t) : t \in {FallbackPlanJsonText, <<T("{")>>, <<T("}")>>,
                             <<T("}"), T("prose"), T("{")>>,
                             <<T("{"), Obj(PlanJson(PartialKindTasks)), T("}")>>}}
ParseContexts ==
    {[input_type |-> _determine_input_type(kw), input_data |-> kw] : kw \in Kwargs}

InitParse ==
    /\ q_tasks \in [response : ParseResponses, context : ParseContexts]
    /\ q_obs = [op |-> "none", plan |-> Plan(<<>>, "", <<>>)]
    /\ AgentIdle
    /\ route = NoRoute

ParsePlanResponse ==
    /\ q_obs.op = "none"
    /\ q_obs' = [op |-> "_parse_plan_response",
                 plan |-> _parse_plan_response(q_tasks.response, q_tasks.context)]
    /\ UNCHANGED <<q_tasks, agent_vars, route>>

NextParse == ParsePlanResponse

SpecParse == InitParse /\ [][NextParse]_vars

(***************************************************************************)
(* The parameters execute_task hands to a tool, as a function of the task, *)
(* of the context and of the tasks of the agent's current plan (base.py    *)
(* 272-306): SpecParams draws the three and applies it once.  The tasks of *)
(* the current plan are drawn in the states execute_task leaves them in,   *)
(* completed in the order of the list.                                     *)
(***************************************************************************)
Declared == StrVal(<<T("declared")>>)
OtherExpenseJson == <<T("{"), T("items"), T("more"), T("}")>>

ParamTasks ==
    {Task("save_data", "save", "save_to_sheets", parameters, {}) :
        parameters \in {NoParams} \cup [{"expense_data"} -> {Declared}]
                       \cup [{"message_date"} -> {Declared}]
                       \cup [{"sheet"} -> {Declared}]}
    \cup {Task("extract_data", "extract", "extract_text_expense", parameters, {}) :
            parameters \in {NoParams} \cup [{"text"} -> {Declared}]
                           \cup [{"language"} -> {Declared}]}
    \cup {Task("extract_data", "extract", "process_receipt", parameters, {}) :
            parameters \in {NoParams} \cup [{"image_data"} -> {Declared}]}
ParamContexts ==
    {[input_type |-> _determine_input_type(kw), input_data |-> kw] :
        kw \in UNION {[keys -> {Payload}] :
                        keys \in SUBSET {"text", "image_data", "message_date"}}}
EarlierTasks ==
    {[Task("extract_data", "extract", "extract_text_expense", NoParams, {})
        EXCEPT !.status = "completed", !.result = StrVal(text)] :
        text \in {ExpenseJson, OtherExpenseJson}}
    \cup {[Task("check", "validate", NoTool, NoParams, {})
             EXCEPT !.status = "completed", !.result = DictVal(<<T("validation")>>)],
          [Task("extract_data", "extract", "extract_text_expense", NoParams, {})
             EXCEPT !.status = "failed"],
          Task("extract_data", "extract", "extract_text_expense", NoParams, {})}
CurrentPlanTasks == UNION {[1..n -> EarlierTasks] : n \in 0..MaxLen}

InitParams ==
    /\ q_tasks \in [task : ParamTasks, context : ParamContexts,
                    current_tasks : CurrentPlanTasks]
    /\ q_obs = [op |-> "none", tool_params |-> NoParams]
    /\ AgentIdle
    /\ route = NoRoute

BuildToolParams ==
    /\ q_obs.op = "none"
    /\ q_obs' = [op |-> "execute_task",
                 tool_params |-> ToolParams(q_tasks.task, q_tasks.context,
                                            q_tasks.current_tasks)]
    /\ UNCHANGED <<q_tasks, agent_vars, route>>

NextParams == BuildToolParams

SpecParams == InitParams /\ [][NextParams]_vars

(***************************************************************************)
(* AgentMemory.get_similar_experiences and create_plan as functions of the *)
(* context, of the stored experiences and of what the oracle does          *)
(* (base.py 100-114, 171-183).  Of a context only its key set matters to   *)
(* the memory; SpecMemory draws the arguments and applies the functions.   *)
(***************************************************************************)
ContextKeys == {"input_type", "input_data", "agent_name"}
SimilarLimit == 5

\* len(intersection) / len(union) as a fraction; the division raises
\* ZeroDivisionError when the union is empty
Similarity(context_keys, exp_keys) ==
    IF context_keys \cup exp_keys = {}
    THEN [raised |-> TRUE, num |-> 0, den |-> 0]
    ELSE [raised |-> FALSE, num |-> Cardinality(context_keys \cap exp_keys),
          den |-> Cardinality(context_keys \cup exp_keys)]

\* similarity > 0.3
AboveThreshold(sim) == 10 * sim.num > 3 * sim.den

\* mutant: the list is left in the order of the memory
SortBySimilarity_unsorted(pairs) == pairs

\* list.sort(key = similarity, reverse = True): stable, highest first
RECURSIVE SortBySimilarity(_)
SortBySimilarity(pairs) ==
    IF pairs = <<>> THEN <<>>
    ELSE LET sorted == SortBySimilarity(SubSeq(pairs, 1, Len(pairs) - 1))
             last == pairs[Len(pairs)]
             \* a/b >= c/d
             AtLeast(x, y) == x.sim.num * y.sim.den >= y.sim.num * x.sim.den
             keep == Cardinality({i \in 1..Len(sorted) : AtLeast(sorted[i], last)})
         IN  SubSeq(sorted, 1, keep) \o <<last>> \o SubSeq(sorted, keep + 1, Len(sorted))

\* the positions in experiences of the experiences returned; an experience
\* stands for the key set of its context
get_similar_experiences(experiences, context_keys) ==
    LET sims == [i \in 1..Len(experiences) |-> Similarity(context_keys, experiences[i])]
        pairs == [i \in 1..Len(experiences) |-> [sim |-> sims[i], exp |-> i]]
        similar == SortBySimilarity(
                      SelectSeq(pairs, LAMBDA pair : AboveThreshold(pair.sim)))
    IN  IF \E i \in 1..Len(experiences) : sims[i].raised
        THEN [raised |-> TRUE, similarities |-> sims, similar |-> <<>>]
        ELSE [raised |-> FALSE, similarities |-> sims,
              similar |-> [i \in 1..(IF Len(similar) < SimilarLimit THEN Len(similar)
                                     ELSE SimilarLimit) |-> similar[i].exp]]

\* the context dict of a call of create_plan seen through context.get
ContextOf(context_keys, input_type) ==
    [input_type |-> IF "input_type" \in context_keys THEN input_type ELSE "unknown",
     input_data |-> <<>>]

\* create_plan with the agent's memory: the memory is asked before the
\* oracle, outside any try
CreatePlanFromMemory(experiences, context_keys, input_type, transport) ==
    IF get_similar_experiences(experiences, context_keys).raised
    THEN [raised |-> TRUE, tasks |-> <<>>]
    ELSE [raised |-> FALSE,
          tasks |-> create_plan(transport, ContextOf(context_keys, input_type)).tasks]

\* short memories over every key set, longer ones over three key sets
StoredExperiences ==
    UNION {[1..n -> SUBSET ContextKeys] : n \in 0..MaxLen}
    \cup UNION {[1..n -> {{}, {"input_type"}, {"input_type", "input_data"}}] :
                  n \in 0..MaxExperiences}
MemoryTransports ==
    {[kind |-> "raise", text |-> <<>>], [kind |-> "none", text |-> <<>>],
     [kind |-> "text", text |-> <<T("prose")>>],
     [kind |-> "text", text |-> <<T("{"), Obj(PlanJson(UnknownKindTasks)), T("}")>>],
     [kind |-> "text", text |-> <<T("{"), Obj(PlanJson(DuplicateIdTasks)), T("}")>>]}
NoMemoryObs == [op |-> "none", raised |-> FALSE, similarities |-> <<>>,
                similar |-> <<>>, tasks |-> <<>>]

InitMemory ==
    /\ q_tasks \in [context_keys : SUBSET ContextKeys, input_type : {"text", "image"},
                    experiences : StoredExperiences]
    /\ q_obs = NoMemoryObs
    /\ AgentIdle
    /\ route = NoRoute

GetSimilarExperiences ==
    /\ q_obs.op = "none"
    /\ LET answer == get_similar_experiences(q_tasks.experiences, q_tasks.context_keys) IN
       q_obs' = [NoMemoryObs EXCEPT !.op = "get_similar_experiences",
                                    !.raised = answer.raised,
                                    !.similarities = answer.similarities,
                                    !.similar = answer.similar]
    /\ UNCHANGED <<q_tasks, agent_vars, route>>

CreatePlanCall(transport) ==
    /\ q_obs.op = "none"
    /\ LET answer == CreatePlanFromMemory(q_tasks.experiences, q_tasks.context_keys,
                                          q_tasks.input_type, transport) IN
       q_obs' = [NoMemoryObs EXCEPT !.op = "create_plan", !.raised = answer.raised,
                                    !.tasks = answer.tasks]
    /\ UNCHANGED <<q_tasks, agent_vars, route>>

NextMemory ==
    \/ GetSimilarExperiences
    \/ \E transport \in MemoryTransports : CreatePlanCall(transport)

SpecMemory == InitMemory /\ [][NextMemory]_vars

(***************************************************************************)
(* The manager over many requests: SpecLearn takes each call of            *)
(* intelligent_route_request on its non-collaborative path as one step.    *)
(* agent.execute always returns an outcome, so here it is the choice of    *)
(* the outcome's success; the requests are drawn so that the routing       *)
(* history has at most MaxRuns blocks of equal decisions and at most       *)
(* MaxDecisions entries.                                                   *)
(***************************************************************************)
LearnKwargs == [{"text"} -> {Payload}]
LearnTransports ==
    {[kind |-> "prose", data |-> NoRouting]}
    \cup {[kind |-> "json", data |-> Routing(b, FALSE, <<>>)] :
            b \in {ReceiptAgent, UnknownAgent, NoAgent}}

AgentOutcome(success) ==
    IF success THEN AgentResult(TRUE, "processed", Payload, NoneVal)
    ELSE AgentResult(FALSE, "failed", NoneVal, StrVal(<<T("agent error")>>))

RoutingFailure ==
    Returned(AgentResult(FALSE, "No suitable agent found for this request", NoneVal,
                         StrVal(<<T("Agent routing failed")>>)))

\* mutant: the request is recorded before the roster is consulted
intelligent_route_request_eager(gc, kw, transport, success) ==
    LET a == _analyze_request_for_routing(kw, transport)
        ra == a.analysis
        r == [NoRoute EXCEPT !.pc = "returned", !.kwargs = kw,
                             !.routing_analysis = ra, !.fallback = a.fallback,
                             !.global_context = gc]
    IN  IF a.raised \/ ra.best_agent = ListName
        THEN [r EXCEPT !.outcome = route_except("routing"), !.escaped = "routing"]
        ELSE IF ra.best_agent \in Agents
        THEN [r EXCEPT !.outcome = Returned(AgentOutcome(success)),
                       !.dispatched = <<ra.best_agent>>,
                       !.global_context =
                          _learn_from_routing(_update_global_context(gc, ra, kw),
                                              ra, AgentOutcome(success), kw)]
        ELSE [r EXCEPT !.outcome = RoutingFailure,
                       !.global_context = _update_global_context(gc, ra, kw)]

\* intelligent_route_request with requires_collaboration false, from the
\* global context gc at the call to the manager's state at the return
intelligent_route_request(gc, kw, transport, success) ==
    LET a == _analyze_request_for_routing(kw, transport)
        ra == a.analysis
        r == [NoRoute EXCEPT !.pc = "returned", !.kwargs = kw,
                             !.routing_analysis = ra, !.fallback = a.fallback,
                             !.global_context = gc]
    IN  IF a.raised \/ ra.best_agent = ListName
        THEN [r EXCEPT !.outcome = route_except("routing"), !.escaped = "routing"]
        ELSE IF ra.best_agent \in Agents
        THEN [r EXCEPT !.outcome = Returned(AgentOutcome(success)),
                       !.dispatched = <<ra.best_agent>>,
                       !.global_context =
                          _learn_from_routing(_update_global_context(gc, ra, kw),
                                              ra, AgentOutcome(success), kw)]
        ELSE [r EXCEPT !.outcome = RoutingFailure]

RoutingHistory(gc) ==
    IF "routing_history" \in DOMAIN gc THEN gc["routing_history"] ELSE <<>>

Runs(h) ==
    IF h = <<>> THEN 0
    ELSE 1 + Cardinality({i \in 1..(Len(h) - 1) : h[i] # h[i + 1]})

HandleRequest(kw, transport, success) ==
    /\ pc = "idle" /\ route.pc \in {"idle", "returned"}
    /\ LET r == intelligent_route_request(route.global_context, kw, transport, success)
           h == RoutingHistory(r.global_context)
       IN  /\ Len(h) <= MaxDecisions /\ Runs(h) <= MaxRuns
           /\ route' = r
    /\ UNCHANGED <<plan_vars, agent_vars>>

\* reset_global_context
ResetGlobalContext ==
    /\ pc = "idle" /\ route.pc = "returned"
    /\ route' = NoRoute
    /\ UNCHANGED <<plan_vars, agent_vars>>

NextLearn ==
    \/ \E kw \in LearnKwargs, transport \in LearnTransports, success \in BOOLEAN :
          HandleRequest(kw, transport, success)
    \/ ResetGlobalContext

SpecLearn == Init /\ [][NextLearn]_vars

(***************************************************************************)
(* An agent's memory over many calls: SpecRemember takes each call of      *)
(* Agent.execute as one step, which either ends in remember_experience or  *)
(* leaves through the except clause of execute before it, and each call of *)
(* reset_agent_memory as one step (base.py 129-155, manager.py 533-541).   *)
(***************************************************************************)
\* agent_name is no key of self.agents: False, nothing changes
reset_agent_memory(memory, agent_name) ==
    IF agent_name \notin Agents
    THEN [returned |-> "False", memory |-> memory]
    ELSE [returned |-> agent_name, memory |-> [memory EXCEPT ![agent_name] = AgentMemory]]

\* the plans create_plan may have returned, as remember_experience sees them
CreatedPlans ==
    {PlanSummary(Plan(<<"plan">>, "goal", tasks)) : tasks \in {NullParamsTasks, DuplicateIdTasks}}

ExecuteAgent(a, kw, created, success, raises) ==
    /\ pc = "idle" /\ route.pc = "idle"
    /\ Len(route.memory[a].experiences) < MaxMemory
    /\ LET ctx == [input_type |-> _determine_input_type(kw), input_data |-> kw] IN
       route' = [route EXCEPT
                   !.reset = "none",
                   !.memory[a] = IF AnalysisRaises(a, kw) \/ raises THEN @
                                 ELSE remember_experience(@, ctx, created,
                                                          AgentOutcome(success))]
    /\ UNCHANGED <<plan_vars, agent_vars>>

ResetAgentMemory(agent_name) ==
    /\ pc = "idle" /\ route.pc = "idle"
    /\ LET r == reset_agent_memory(route.memory, agent_name) IN
       route' = [route EXCEPT !.reset = r.returned, !.memory = r.memory]
    /\ UNCHANGED <<plan_vars, agent_vars>>

NextRemember ==
    \/ \E a \in Agents, kw \in [{"text"} -> {Payload, NoneVal}],
          created \in CreatedPlans, success \in BOOLEAN, raises \in BOOLEAN :
             ExecuteAgent(a, kw, created, success, raises)
    \/ \E agent_name \in Agents \cup {UnknownAgent} : ResetAgentMemory(agent_name)

SpecRemember == Init /\ [][NextRemember]_vars

(***************************************************************************)
(* The primary payload of a collaboration: SpecSynthesis draws the list of *)
(* agent results and applies _synthesize_collaborative_results once        *)
(* (manager.py 227-295).                                                   *)
(***************************************************************************)
MaxResults == 3

\* len(str(data or "")), in tokens: nothing for None and for an empty dict,
\* the two braces and the content otherwise
SerializedSize(data) == IF ~Truthy(data) THEN 0 ELSE 2 + Len(data.text)

\* mutant: of two results of equal size the later one is taken
RECURSIVE best_result_latest(_)
best_result_latest(successful_results) ==
    IF Len(successful_results) = 1 THEN successful_results[1]
    ELSE LET before == best_result_latest(SubSeq(successful_results, 1,
                                                 Len(successful_results) - 1))
             last == successful_results[Len(successful_results)]
         IN  IF SerializedSize(last.result.data) >= SerializedSize(before.result.data)
             THEN last ELSE before

\* max(successful_results, key=...): the first result of the largest size
RECURSIVE best_result(_)
best_result(successful_results) ==
    IF Len(successful_results) = 1 THEN successful_results[1]
    ELSE LET before == best_result(SubSeq(successful_results, 1,
                                          Len(successful_results) - 1))
             last == successful_results[Len(successful_results)]
         IN  IF SerializedSize(last.result.data) > SerializedSize(before.result.data)
             THEN last ELSE before

\* data["primary_data"] of the collaborative outcome (the outcome's data
\* itself when the synthesis falls back to its except clause)
primary_data(rs) ==
    LET successful_results == SelectSeq(rs, LAMBDA r : r.result.success) IN
    IF successful_results = <<>> THEN NoneVal
    ELSE best_result(successful_results).result.data

SynthesisPayloads ==
    {NoneVal, DictVal(<<>>), DictVal(<<T("plan_summary")>>), DictVal(<<T("fallback_used")>>),
     DictVal(<<T("plan_summary"), T("expense_data")>>)}
SynthesisResults ==
    {[agent |-> a, result |-> AgentResult(TRUE, "processed", d, NoneVal)] :
        a \in Agents, d \in SynthesisPayloads}
    \cup {[agent |-> a, result |-> AgentResult(FALSE, "failed", d, StrVal(<<T("agent error")>>))] :
            a \in Agents, d \in {NoneVal, DictVal(<<T("plan_summary"), T("expense_data"),
                                                    T("partial")>>)}}

InitSynthesis ==
    /\ q_tasks \in UNION {[1..n -> SynthesisResults] : n \in 0..MaxResults}
    /\ q_obs = [op |-> "none", outcome |-> NoResult, primary_data |-> NoneVal]
    /\ AgentIdle
    /\ route = NoRoute

SynthesizeCollaborativeResults ==
    /\ q_obs.op = "none"
    /\ q_obs' = [op |-> "_synthesize_collaborative_results",
                 outcome |-> _synthesize_collaborative_results(q_tasks),
                 primary_data |-> primary_data(q_tasks)]
    /\ UNCHANGED <<q_tasks, agent_vars, route>>

NextSynthesis == SynthesizeCollaborativeResults

SpecSynthesis == InitSynthesis /\ [][NextSynthesis]_vars

\* C34: on collaborative success the primary payload is the payload of a
\* successful result that is at least as large as every other successful
\* result's payload, the earliest such result in execution order; it is
\* never taken from a failed result
C34_PrimaryPayloadIsLargestSuccessful ==
    (q_obs.op = "_synthesize_collaborative_results" /\ q_obs.outcome.success) =>
        \E i \in 1..Len(q_tasks) :
           /\ q_tasks[i].result.success
           /\ q_obs.primary_data = q_tasks[i].result.data
           /\ \A j \in 1..Len(q_tasks) :
                 q_tasks[j].result.success =>
                    /\ SerializedSize(q_tasks[j].result.data)
                          <= SerializedSize(q_tasks[i].result.data)
                    /\ (j < i => SerializedSize(q_tasks[j].result.data)
                                    < SerializedSize(q_tasks[i].result.data))

\* two successful results of the same largest size with different payloads,
\* and a failed result with a larger payload after them
C34_Witness ==
    /\ q_obs.op = "_synthesize_collaborative_results" /\ q_obs.outcome.success
    /\ Len(q_tasks) = 3
    /\ q_tasks[1].result.success /\ q_tasks[2].result.success /\ ~q_tasks[3].result.success
    /\ q_tasks[1].result.data = DictVal(<<T("fallback_used")>>)
    /\ q_tasks[2].result.data = DictVal(<<T("plan_summary")>>)
    /\ SerializedSize(q_tasks[3].result.data) > SerializedSize(q_tasks[1].result.data)
    /\ q_obs.primary_data = q_tasks[1].result.data

(***************************************************************************)
(* The tool registry's counters: SpecRegistry takes each call of           *)
(* execute_tool_with_learning as one step (tools/registry.py 170-286).     *)
(* q_tasks holds tool_performance, q_obs the last call and what it         *)
(* returned.                                                               *)
(***************************************************************************)
MaxExecutions == 3

\* ToolPerformance(tool_name) as register_tool creates it
ToolPerformance == [total_executions |-> 0, successful_executions |-> 0]

_record_successful_execution(tool_performance, tool_name) ==
    IF tool_name \in DOMAIN tool_performance
    THEN [tool_performance EXCEPT ![tool_name].total_executions = @ + 1,
                                  ![tool_name].successful_executions = @ + 1]
    ELSE tool_performance

_record_failed_execution(tool_performance, tool_name) ==
    IF tool_name \in DOMAIN tool_performance
    THEN [tool_performance EXCEPT ![tool_name].total_executions = @ + 1]
    ELSE tool_performance

\* execute_tool_with_learning: the except clause records a failure when an
\* exception leaves execute_tool, which catches the exceptions of the tools
\* itself and answers with an 'Error' text
execute_tool_with_learning(tool_performance, name, params, behaviour) ==
    LET result == execute_tool(name, params, behaviour) IN
    IF result = Raised
    THEN [result |-> ToolError("executing tool"), success |-> FALSE,
          tool_performance |-> _record_failed_execution(tool_performance, name)]
    ELSE [result |-> result, success |-> TRUE,
          tool_performance |-> _record_successful_execution(tool_performance, name)]

\* the keyword arguments of the calls: none, and what each tool asks for
RegistryParams ==
    {NoParams, [k \in {"image_data"} |-> Payload], [k \in {"text"} |-> Payload],
     [k \in {"expense_data"} |-> StrVal(ExpenseJson)]}

InitRegistry ==
    /\ q_tasks = [name \in RegisteredTools |-> ToolPerformance]
    /\ q_obs = [op |-> "none", name |-> NoTool, result |-> <<>>, success |-> FALSE]
    /\ AgentIdle
    /\ route = NoRoute

ExecuteToolWithLearning(name, params, behaviour) ==
    /\ \A n \in DOMAIN q_tasks : q_tasks[n].total_executions < MaxExecutions
    /\ LET r == execute_tool_with_learning(q_tasks, name, params, behaviour) IN
       /\ q_tasks' = r.tool_performance
       /\ q_obs' = [op |-> "execute_tool_with_learning", name |-> name,
                    result |-> r.result, success |-> r.success]
    /\ UNCHANGED <<agent_vars, route>>

NextRegistry ==
    \E name \in RegisteredTools \cup {"ocr_tool"}, params \in RegistryParams,
       behaviour \in ToolBehaviour : ExecuteToolWithLearning(name, params, behaviour)

SpecRegistry == InitRegistry /\ [][NextRegistry]_vars

\* C40: a tool's successful_executions never exceeds its total_executions,
\* and a call on a registered tool that returns a text beginning with 'Error'
\* raises total_executions by one and leaves successful_executions as it was
C40_ErrorsAreNotCountedAsSuccess ==
    /\ [](\A n \in DOMAIN q_tasks :
            q_tasks[n].successful_executions <= q_tasks[n].total_executions)
    /\ [][(q_obs'.name \in RegisteredTools /\ StartsWithError(q_obs'.result)) =>
             /\ q_tasks'[q_obs'.name].total_executions
                   = q_tasks[q_obs'.name].total_executions + 1
             /\ q_tasks'[q_obs'.name].successful_executions
                   = q_tasks[q_obs'.name].successful_executions]_vars

(***************************************************************************)
(* Termination of execute_plan: SpecLoop is Spec without the limit on the  *)
(* number of adaptations, under the assumption that every oracle and tool  *)
(* call returns (weak fairness of the steps).  A run with more than        *)
(* MaxAdapt adaptations grows without bound in three places the control    *)
(* flow of execute_plan never reads: the list of results, the suffixes of  *)
(* the plan id and the number of plan objects created.  AdaptPlanAgain     *)
(* folds them (the latest result, the id as it is, a reference no live     *)
(* plan has), so that an endless run is a cycle of states; of the oracle's *)
(* answers to these later adaptations two are taken: no text, and a plan   *)
(* of an extraction followed by a save.                                    *)
(***************************************************************************)
\* a reference no plan still referenced has: at most two plans are live
FreshRef(ps) == CHOOSE r \in 1..(MaxAdapt + 2) : r \notin DOMAIN ps

\* adapt_plan and the replacement of the plan, after MaxAdapt adaptations
AdaptPlanAgain(transport) ==
    /\ pc = "adapt"
    /\ adapted = MaxAdapt
    /\ LET adapted_plan == adapt_plan(plans[plan], transport, context)
           new == IF Replaces(adapted_plan) THEN FreshRef(plans) ELSE plan
           ps == IF Replaces(adapted_plan)
                 THEN (new :> [adapted_plan.plan EXCEPT !.id = plans[plan].id]) @@ plans
                 ELSE plans
           nxt == AfterBody(ps, new, new, ready_tasks)
       IN  /\ plan' = new
           /\ current_plan' = new
           /\ pc' = nxt.pc
           /\ plans' = nxt.plans
           /\ ready_tasks' = nxt.ready_tasks
           /\ task' = IF nxt.pc = "while" THEN NoTask ELSE task
           /\ seen' = [seen EXCEPT !.adaptation = AnswerKind(transport),
                                   !.replaced = Replaces(adapted_plan)]
    /\ results' = LastOf(results, 1)
    /\ UNCHANGED <<plan_vars, route, agent, context, task_result, final_result, outcome,
                   adapted>>

NextLoop ==
    \/ Next
    \/ \E transport \in OtherTransports : AdaptPlanAgain(transport)

SpecLoop == Init /\ [][NextLoop]_vars /\ WF_vars(NextLoop)

\* C35: every call of execute_plan comes to its end, the call of
\* synthesize_results or the return of the zero-task bypass, whatever the
\* tools and the oracle return
C35_ExecutePlanTerminates ==
    (pc = "execute_plan") ~> (pc \in {"synthesize", "remember"})

(***************************************************************************)
(* Properties of plan parsing (SpecParse).                                 *)
(***************************************************************************)
\* C26: _parse_plan_response returns the fallback plan of the input type,
\* and never a partly built plan, whenever the response has no '{' followed
\* by a '}', the text from the first '{' to the last '}' does not decode, or
\* some task entry has a kind outside analyze, extract, process, save,
\* validate, reason; otherwise each task entry becomes a task, with
\* confidence 1.0 when the entry gives none.
C26_UnusableResponseGivesFallbackPlan ==
    q_obs.op = "_parse_plan_response" =>
        LET text == q_tasks.response.text
            Braces == \E i, j \in 1..Len(text) :
                         i < j /\ text[i].tok = "{" /\ text[j].tok = "}"
            first == CHOOSE i \in 1..Len(text) :
                        text[i].tok = "{" /\ \A k \in 1..(i - 1) : text[k].tok # "{"
            last == CHOOSE j \in 1..Len(text) :
                       text[j].tok = "}" /\ \A k \in (j + 1)..Len(text) : text[k].tok # "}"
            Decodes == Braces /\ last = first + 2 /\ text[first + 1].tok = "object"
            entries == text[first + 1].obj.tasks
            Kinds == {"analyze", "extract", "process", "save", "validate", "reason"}
        IN  IF ~Decodes \/ \E i \in 1..Len(entries) : entries[i].type \notin Kinds
            THEN /\ q_obs.plan.id = <<"fallback_plan">>
                 /\ Len(q_obs.plan.tasks)
                      = (IF q_tasks.context.input_type \in {"text", "image"} THEN 2 ELSE 1)
                 /\ q_obs.plan.tasks[1].type
                      = (IF q_tasks.context.input_type \in {"text", "image"}
                         THEN "extract" ELSE "process")
                 /\ q_obs.plan.tasks[1].tool_name
                      = (IF q_tasks.context.input_type = "text" THEN "extract_text_expense"
                         ELSE IF q_tasks.context.input_type = "image" THEN "process_receipt"
                         ELSE NoTool)
            ELSE /\ q_obs.plan.id = <<"plan">>
                 /\ Len(q_obs.plan.tasks) = Len(entries)
                 /\ \A i \in 1..Len(entries) :
                       /\ q_obs.plan.tasks[i].id = entries[i].id
                       /\ q_obs.plan.tasks[i].type = entries[i].type
                       /\ q_obs.plan.tasks[i].confidence
                            = (IF "confidence" \in DOMAIN entries[i]
                               THEN entries[i].confidence ELSE 10)

C26_Witness ==
    /\ q_obs.op = "_parse_plan_response"
    /\ q_tasks.response = StrVal(<<T("{"), Obj(PlanJson(PartialKindTasks)), T("}")>>)
    /\ q_tasks.context.input_type = "text"
    /\ q_obs.plan.id = <<"fallback_plan">> /\ Len(q_obs.plan.tasks) = 2
    /\ q_obs.plan.tasks[2].tool_name = "save_to_sheets"

(***************************************************************************)
(* Properties of the parameters of a tool call (SpecParams).               *)
(***************************************************************************)
\* C28 (as claimed): a save_to_sheets task that declares no expense_data
\* passes as expense_data the result of the most recently completed task of
\* the current plan whose result is text not beginning with 'Error' (the
\* latest one when there are several), and no expense_data when there is
\* none.
C28_LatestTextResultIsSaved ==
    (/\ q_obs.op = "execute_task"
     /\ q_tasks.task.tool_name = "save_to_sheets"
     /\ "expense_data" \notin DOMAIN q_tasks.task.parameters) =>
        LET tasks == q_tasks.current_tasks
            eligible == {i \in 1..Len(tasks) :
                           /\ tasks[i].status = "completed"
                           /\ tasks[i].result.type = "str"
                           /\ tasks[i].result.text # <<>>
                           /\ tasks[i].result.text[1].tok # "Error"}
        IN  IF eligible = {}
            THEN "expense_data" \notin DOMAIN q_obs.tool_params
            ELSE /\ "expense_data" \in DOMAIN q_obs.tool_params
                 /\ q_obs.tool_params["expense_data"]
                      = tasks[CHOOSE i \in eligible : \A j \in eligible : j <= i].result

\* C29: the parameters passed to a tool are the values found by convention
\* in the context, overridden by the task's declared parameters: a key of
\* both gets the declared value, a key of one of them its value there.
C29_DeclaredParametersWin ==
    q_obs.op = "execute_task" =>
        LET declared == q_tasks.task.parameters
            found == ConventionParams(q_tasks.task, q_tasks.context, q_tasks.current_tasks)
        IN  /\ DOMAIN q_obs.tool_params = DOMAIN declared \cup DOMAIN found
            /\ \A k \in DOMAIN declared : q_obs.tool_params[k] = declared[k]
            /\ \A k \in DOMAIN found \ DOMAIN declared : q_obs.tool_params[k] = found[k]

C29_Witness ==
    /\ q_obs.op = "execute_task"
    /\ q_tasks.task.tool_name = "extract_text_expense"
    /\ "text" \in DOMAIN q_tasks.task.parameters
    /\ "text" \in DOMAIN q_tasks.context.input_data
    /\ q_tasks.context.input_data["text"] # q_tasks.task.parameters["text"]
    /\ q_obs.tool_params["text"] = Declared

(***************************************************************************)
(* Properties of the agent's memory (SpecMemory).                          *)
(***************************************************************************)
\* C18: the similarity of get_similar_experiences is defined for every pair
\* of key sets, empty ones included, lies in [0,1], is 1 for equal key sets
\* and 0 for disjoint ones.
C18_SimilarityIsTotal ==
    q_obs.op = "get_similar_experiences" =>
        \A i \in 1..Len(q_tasks.experiences) :
            LET sim == q_obs.similarities[i]
                a == q_tasks.context_keys
                b == q_tasks.experiences[i]
            IN  /\ ~sim.raised
                /\ sim.den > 0 /\ 0 <= sim.num /\ sim.num <= sim.den
                /\ (a = b /\ a # {} => sim.num = sim.den)
                /\ (a \cap b = {} => sim.num = 0)

\* C20: create_plan raises nothing and returns a plan for every context, a
\* context without keys included, and every memory content, experiences
\* with a keyless context included, whatever the oracle returns or raises.
C20_CreatePlanNeverRaises ==
    q_obs.op = "create_plan" => ~q_obs.raised

\* C30: get_similar_experiences returns at most 5 stored experiences, each
\* of key-set similarity above 0.3 to the query context, in non-increasing
\* order of similarity; no experience left out is more similar than one
\* returned; the memory is left as it was.
C30_MostSimilarFive ==
    /\ [](q_obs.op = "get_similar_experiences" /\ ~q_obs.raised =>
            LET a == q_tasks.context_keys
                Common(i) == Cardinality(a \cap q_tasks.experiences[i])
                All(i) == Cardinality(a \cup q_tasks.experiences[i])
                \* similarity of experience i >= similarity of experience j
                AtLeast(i, j) == Common(i) * All(j) >= Common(j) * All(i)
                similar == q_obs.similar
                returned == {similar[k] : k \in 1..Len(similar)}
            IN  /\ Len(similar) <= 5
                /\ returned \subseteq 1..Len(q_tasks.experiences)
                /\ Cardinality(returned) = Len(similar)
                /\ \A i \in returned : 10 * Common(i) > 3 * All(i)
                /\ \A k \in 1..(Len(similar) - 1) : AtLeast(similar[k], similar[k + 1])
                /\ \A j \in (1..Len(q_tasks.experiences)) \ returned :
                      \A i \in returned : AtLeast(i, j))
    /\ [][q_tasks'.experiences = q_tasks.experiences]_vars

C30_Witness ==
    /\ q_obs.op = "get_similar_experiences" /\ ~q_obs.raised
    /\ Len(q_obs.similar) = 5
    /\ Len(q_tasks.experiences) = 6
    /\ \A i \in 1..6 :
          10 * Cardinality(q_tasks.context_keys \cap q_tasks.experiences[i])
            > 3 * Cardinality(q_tasks.context_keys \cup q_tasks.experiences[i])
    /\ q_obs.similar[1] # 1

(***************************************************************************)
(* Properties of an agent's memory over many calls (SpecRemember).         *)
(***************************************************************************)
\* C21: an agent's list of experiences only grows, its records staying in
\* place, and gets shorter only by reset_agent_memory for that agent, which
\* empties it; reset_agent_memory for an unknown name returns False and
\* changes no agent's memory.
C21_MemoryGrowsUntilReset ==
    /\ [][\A a \in Agents :
            LET old == route.memory[a].experiences
                new == route'.memory[a].experiences
            IN  IF route'.reset = a /\ route' # route
                THEN new = <<>>
                ELSE Len(new) >= Len(old) /\ SubSeq(new, 1, Len(old)) = old]_vars
    /\ [][(route'.reset \in Agents /\ route' # route) =>
             \A b \in Agents \ {route'.reset} : route'.memory[b] = route.memory[b]]_vars
    /\ [][route'.reset = "False" => route'.memory = route.memory]_vars

C21_Witness ==
    /\ route.reset = TextAgent
    /\ route.memory[TextAgent].experiences = <<>>
    /\ Len(route.memory[ReceiptAgent].experiences) = 2
    /\ route.memory[ReceiptAgent].experiences[1] # route.memory[ReceiptAgent].experiences[2]

\* the sum of the counts of a pattern counter
RECURSIVE SumOf(_)
SumOf(patterns) ==
    IF DOMAIN patterns = {} THEN 0
    ELSE LET k == CHOOSE x \in DOMAIN patterns : TRUE
         IN  patterns[k] + SumOf([x \in DOMAIN patterns \ {k} |-> patterns[x]])

\* C38: an agent has as many experience records as its successful-pattern
\* and failed-pattern counts add up to; a call of execute that changes the
\* memory appends one record and raises one counter by one, the successful
\* one exactly if the outcome is a success
C38_RecordsMatchPatternCounts ==
    /\ [](\A a \in Agents :
            LET m == route.memory[a] IN
            Len(m.experiences) = SumOf(m.successful_patterns) + SumOf(m.failed_patterns))
    /\ [][\A a \in Agents :
            LET old == route.memory[a]
                new == route'.memory[a]
            IN  (new # old /\ route'.reset = "none") =>
                   /\ Len(new.experiences) = Len(old.experiences) + 1
                   /\ LET e == new.experiences[Len(new.experiences)]
                          key == [goal |-> e.goal, tasks_count |-> e.tasks_count]
                          was(patterns) == IF key \in DOMAIN patterns THEN patterns[key] ELSE 0
                      IN  IF e.success
                          THEN /\ was(new.successful_patterns) = was(old.successful_patterns) + 1
                               /\ SumOf(new.successful_patterns)
                                    = SumOf(old.successful_patterns) + 1
                               /\ new.failed_patterns = old.failed_patterns
                          ELSE /\ was(new.failed_patterns) = was(old.failed_patterns) + 1
                               /\ SumOf(new.failed_patterns) = SumOf(old.failed_patterns) + 1
                               /\ new.successful_patterns = old.successful_patterns]_vars

\* three records of the text agent: two successes of one pattern and a
\* failure of another
C38_Witness ==
    LET m == route.memory[TextAgent] IN
    /\ Len(m.experiences) = 3
    /\ SumOf(m.successful_patterns) = 2
    /\ SumOf(m.failed_patterns) = 1
    /\ DOMAIN m.successful_patterns # DOMAIN m.failed_patterns
    /\ Cardinality(DOMAIN m.successful_patterns) = 1

RecentRequests(gc) ==
    IF "recent_requests" \in DOMAIN gc THEN gc["recent_requests"] ELSE <<>>

\* C31: the window of recent requests holds at most 20 entries, and they are
\* the entries of the latest dispatches to a single agent, oldest first: one
\* for each of the last 20 routing decisions, with its agent and request type
C31_RecentRequestsWindow ==
    LET recent_requests == RecentRequests(route.global_context)
        latest == LastOf(RoutingHistory(route.global_context), RecentRequestsKept)
    IN  /\ Len(recent_requests) <= RecentRequestsKept
        /\ Len(recent_requests) = Len(latest)
        /\ \A i \in 1..Len(latest) :
              /\ recent_requests[i].routing_analysis.best_agent = latest[i].routing_decision
              /\ recent_requests[i].routing_analysis.confidence = latest[i].confidence
              /\ recent_requests[i].request_type = latest[i].request_type

\* a 21st dispatch has dropped the oldest entry, which named another agent
C31_Witness ==
    LET recent_requests == RecentRequests(route.global_context)
        h == RoutingHistory(route.global_context)
    IN  /\ Len(h) = RecentRequestsKept + 1
        /\ Len(recent_requests) = RecentRequestsKept
        /\ h[1].routing_decision # h[2].routing_decision
        /\ recent_requests[1].routing_analysis.best_agent = h[2].routing_decision

\* C32: the stored routing history holds at most the 50 latest decisions
C32_RoutingHistoryCapped ==
    Len(RoutingHistory(route.global_context)) <= DecisionsAnalyzed

(***************************************************************************)
(* Properties of the manager's learning (SpecLearn).                       *)
(***************************************************************************)
\* C16: on the non-collaborative path a routing decision that names no
\* agent, or a name the roster does not have, ends in the failure outcome
\* with the error "Agent routing failed"; no agent is executed and the
\* recent requests, the routing history and the performance insights stay
\* as they were.
C16_UnroutableRequestChangesNothing ==
    [][(/\ route'.pc = "returned"
        /\ ~route'.routing_analysis.requires_collaboration
        /\ route'.routing_analysis.best_agent \notin Agents \cup {ListName}) =>
          /\ route'.outcome = RoutingFailure
          /\ route'.dispatched = <<>>
          /\ route'.global_context = route.global_context]_vars

C16_Witness ==
    /\ route.pc = "returned"
    /\ route.routing_analysis.best_agent = UnknownAgent
    /\ route.outcome = RoutingFailure
    /\ Len(RoutingHistory(route.global_context)) = DecisionsBeforeInsights
    /\ Len(route.global_context["recent_requests"]) = DecisionsBeforeInsights
    /\ "agent_performance_insights" \in DOMAIN route.global_context

\* C17: the performance insights are absent while fewer than 10 decisions
\* are recorded; from the 10th on they give, for every agent decided for in
\* the most recent 50 recorded decisions, the success rate
\* successes / decisions counted over those 50.
C17_InsightsOverLastFifty ==
    LET gc == route.global_context
        h == RoutingHistory(gc)
        first == IF Len(h) > DecisionsAnalyzed THEN Len(h) - DecisionsAnalyzed + 1 ELSE 1
        window == first..Len(h)
        For(a) == {i \in window : h[i].routing_decision = a}
        Good(a) == {i \in For(a) : h[i].actual_success}
    IN  /\ Len(h) < DecisionsBeforeInsights =>
              "agent_performance_insights" \notin DOMAIN gc
        /\ Len(h) >= DecisionsBeforeInsights =>
              /\ "agent_performance_insights" \in DOMAIN gc
              /\ DOMAIN gc["agent_performance_insights"]
                   = {h[i].routing_decision : i \in window}
              /\ \A a \in DOMAIN gc["agent_performance_insights"] :
                    LET rate == gc["agent_performance_insights"][a].success_rate IN
                    /\ rate.den > 0
                    /\ rate.num * Cardinality(For(a)) = Cardinality(Good(a)) * rate.den
                    /\ gc["agent_performance_insights"][a].total_requests
                         = Cardinality(For(a))

C17_Witness ==
    /\ Len(RoutingHistory(route.global_context)) = 10
    /\ "agent_performance_insights" \in DOMAIN route.global_context
    /\ DOMAIN route.global_context["agent_performance_insights"] = {ReceiptAgent}
    /\ route.global_context["agent_performance_insights"][ReceiptAgent].success_rate
         = [num |-> 7, den |-> 10]

(***************************************************************************)
(* Properties of the routing analysis (SpecAnalysis).                      *)
(***************************************************************************)
\* C15: when the routing oracle gives no decodable answer (its call fails,
\* the text has no braces or does not decode), the decision depends on the
\* request's keys only: image_data, with or without text, gives the receipt
\* agent at confidence 0.7; otherwise text gives the text agent at 0.7;
\* otherwise no agent at 0.3; collaboration is never requested.
C15_FallbackRoutingIsDeterministic ==
    (/\ q_obs.op = "_analyze_request_for_routing"
     /\ q_tasks.transport.kind # "json"
     /\ Serializable(q_tasks.kwargs)) =>
        LET keys == DOMAIN q_tasks.kwargs
            a == q_obs.answer.analysis
        IN  /\ ~q_obs.answer.raised
            /\ ~a.requires_collaboration /\ a.collaborative_agents = <<>>
            /\ ("image_data" \in keys =>
                  a.best_agent = ReceiptAgent /\ a.confidence = 7)
            /\ ("image_data" \notin keys /\ "text" \in keys =>
                  a.best_agent = TextAgent /\ a.confidence = 7)
            /\ ("image_data" \notin keys /\ "text" \notin keys =>
                  a.best_agent = NoAgent /\ a.confidence = 3)

C15_Witness ==
    /\ q_obs.op = "_analyze_request_for_routing"
    /\ q_tasks.transport.kind = "malformed"
    /\ DOMAIN q_tasks.kwargs = {"text", "image_data"}
    /\ Serializable(q_tasks.kwargs)
    /\ q_obs.answer.analysis.best_agent = ReceiptAgent

(***************************************************************************)
(* Properties of collaboration (SpecRoute).                                *)
(***************************************************************************)
\* the declared names the roster knows, in declared order
RosterOf(declared) == SelectSeq(declared, LAMBDA n : n \in Agents)

\* the loop of _execute_collaborative_processing is (or was) under way
InCollaboration(r) ==
    /\ r.routing_analysis.requires_collaboration
    /\ ~(r.routing_analysis.collaborative_agents = <<>>
         /\ r.routing_analysis.best_agent \in Agents)

\* C12: in a collaborative run the agents of collaborative_agents are
\* executed one at a time in the declared order: the call of the next agent
\* starts only after the call before it has returned, and every agent gets
\* the request's inputs plus the shared context carrying the collaboration id.
C12_CollaborationInDeclaredOrder ==
    /\ [](LET roster == RosterOf(route.routing_analysis.collaborative_agents)
              n == Len(route.results)
          IN  /\ (InCollaboration(route) /\ route.pc # "idle") =>
                    /\ n <= Len(roster)
                    /\ \A i \in 1..n : route.results[i].agent = roster[i]
              /\ route.pc = "collaborative" =>
                    /\ n < Len(roster) /\ agent = roster[n + 1]
                    /\ (context # NoContext =>
                          /\ \A k \in DOMAIN route.kwargs :
                                Get(context.input_data, k) = route.kwargs[k]
                          /\ DOMAIN context.input_data
                               = DOMAIN route.kwargs \cup {"shared_context"}
                          /\ Contains(context.input_data["shared_context"].text,
                                      "collaboration_id")))
    /\ [][(route.pc = "collaborative" /\ route'.pc = "collaborative"
           /\ route'.results # route.results) =>
             /\ pc = "returned" /\ outcome.returned
             /\ route'.results = Append(route.results,
                                        [agent |-> agent, result |-> outcome.result])
             /\ pc' \in {"create_plan", "returned"}]_vars

C12_Witness ==
    /\ route.pc = "collaborative" /\ pc = "task"
    /\ Len(route.results) = 1 /\ route.results[1].agent = ReceiptAgent
    /\ agent = TextAgent

RECURSIVE PayloadsOf(_)
PayloadsOf(rs) ==
    IF rs = <<>> THEN <<>>
    ELSE LET last == rs[Len(rs)]
             before == PayloadsOf(SubSeq(rs, 1, Len(rs) - 1))
         IN  IF last.result.success /\ last.result.data.type # "none"
                /\ last.result.data.text # <<>>
             THEN Append(before, [key |-> last.agent, value |-> last.result.data])
             ELSE before

C33_OneLogEntryPerCollaboration ==
    (/\ route.pc = "returned"
     /\ route.routing_analysis.requires_collaboration
     /\ route.routing_analysis.collaborative_agents # <<>>)
    => /\ Len(route.agent_collaboration_history) = 1
       /\ route.agent_collaboration_history[1].individual_results = route.results
       /\ route.agent_collaboration_history[1].final_result = route.outcome.result.success

IsFailureOutcome(r) == ~r.success /\ r.error.type = "str" /\ r.error.text # <<>>

\* C2: AgenticBaseAgent.execute and intelligent_route_request (single-agent
\* and collaborative paths) end by returning an outcome, never by raising:
\* an exception that leaves input analysis, plan execution, routing analysis
\* or collaboration is answered with an outcome that has success = false and
\* an error string.
C2_FaultsBecomeFailureOutcomes ==
    /\ ~outcome.raised /\ ~route.outcome.raised
    /\ (pc = "returned" =>
          /\ outcome.returned
          /\ (seen.escaped # "none" => IsFailureOutcome(outcome.result)))
    /\ (route.pc = "returned" =>
          /\ route.outcome.returned
          /\ (route.escaped # "none" => IsFailureOutcome(route.outcome.result)))

C2_Witness ==
    /\ route.pc = "returned" /\ route.outcome.returned
    /\ route.escaped = "collaboration"
    /\ \E i \in 1..Len(route.results) :
          route.results[i].result.error = StrVal(<<T("analysis")>>)

====
